---- MODULE Spec2Model ----
(***************************************************************************)
(* Credit ledger and job orchestration core of ai-cine-director.           *)
(*                                                                         *)
(* The repository holds two revisions of the Balance Store and of the      *)
(* Render Orchestrator / Poller:                                           *)
(*   - src/unnamed/part_002       AppContext with balanceRef (ref-based)   *)
(*   - src/context/AppContext.tsx AppContext on React state (state-based)  *)
(*   - src/components/VideoGenerator.tsx  pollJobs with the hard timeout   *)
(*   - src/unnamed/part_000       VideoGenerator with the sequential poll  *)
(* Each revision is a specification of this module over the same state.    *)
(*                                                                         *)
(* React is modelled by two copies of every piece of component state: the  *)
(* committed value (what setX(...) has produced so far) and the rendered   *)
(* value (what the closures of the last render see).  Render copies the    *)
(* committed values into the rendered ones.  An async function keeps the   *)
(* rendered values of the render it was started from.                      *)
(***************************************************************************)
EXTENDS Integers, Sequences, FiniteSets, Bags, TLC

VARIABLES
    userState,      \* rendered userState: [balance, isAdmin, monthlyUsage]
    nextUserState,  \* committed userState (after every setUserState so far)
    balanceRef,     \* balanceRef.current (part_002)
    session,        \* TRUE iff session?.user is set
    remoteCredits,  \* profiles.credits of the user in the remote ledger
    calls,          \* deductCredits invocations, in call order
    inTurn,         \* TRUE iff the last step was a deductCredits call (no yield since)
    activeVideoJobs, \* committed activeVideoJobs: scene -> [id, startTime] (id 0: none)
    sceneStatus,    \* committed sceneStatus: scene -> status ("idle": no entry)
    sceneImages,    \* committed sceneImages: scene -> TRUE iff an image URL is stored
    sceneVideoUrls, \* committed sceneVideoUrls: scene -> job whose output is stored (0: none)
    view,           \* rendered activeVideoJobs, sceneStatus, sceneImages
    batches,        \* handleRenderVideos invocations
    singles,        \* handleGenerateSingleVideo invocations
    sweeps,         \* poll sweeps in flight
    isPricingOpen,  \* isPricingOpen (part_002)
    topups,         \* buyCredits / upgradeUser invocations, in call order
    imageBatches,   \* handleRenderImages invocations
    jobLog,         \* startVideoTask calls, in call order; the index is the job id
    now,            \* Date.now()
    intervals,      \* the running setInterval timers of the poll effect: the
                    \* activeVideoJobs each one's callback closes over
    mounted,        \* TRUE until the component is unmounted
    rpcs,           \* invocations of public.deduct_credits on the server, in call order
    requests,       \* invocations of the POST /api/replicate/predict handler
    env,            \* process.env of the admin route: DISABLE_ADMIN, ADMIN_PASSWORD
    replicate_api_token, \* the setting 'replicate_api_token' in persistent storage, as
                    \* its characters (<<>>: not set)
    puts            \* invocations of the PUT handler of the admin route

balanceVars == <<userState, nextUserState, balanceRef, session, remoteCredits, calls, inTurn>>

uiVars == <<activeVideoJobs, sceneStatus, sceneImages, sceneVideoUrls, view,
            batches, singles, sweeps, isPricingOpen, topups, imageBatches, jobLog, now, intervals, mounted,
                   rpcs, requests, env, replicate_api_token, puts>>

vars == <<balanceVars, uiVars>>

(***************************************************************************)
(* Bounds of the model                                                     *)
(***************************************************************************)
MaxCalls == 3
NumScenes == 2
MaxJobs == 2        \* startVideoTask calls
MaxBatches == 1     \* handleRenderVideos invocations
MaxSingles == 2     \* handleGenerateSingleVideo invocations
MaxSweeps == 2      \* poll sweeps in flight at the same time
MaxTicks == 2       \* steps of the clock
MaxPersisted == 2   \* updateSceneMedia calls counted per job
MaxTopups == 1      \* buyCredits / upgradeUser invocations
MaxLedgerCalls == 2 \* deductCredits invocations next to buyCredits / upgradeUser
MaxImageBatches == 1 \* handleRenderImages invocations
MaxCardCalls == 2 \* paid operations of a scene card next to an image batch

Scenes == 1..NumScenes
NoJob == [id |-> 0, startTime |-> 0]

(***************************************************************************)
(* Program constants                                                       *)
(***************************************************************************)
COST_WAN_2_5 == 38
IMAGE_FLUX == 6

HARD_TIMEOUT_MS == 10 * 60 * 1000
\* one step of the clock: 5.5 minutes, so that two steps are the 11 minutes of the spec
TickMs == (HARD_TIMEOUT_MS \div 20) * 11

Amounts == {COST_WAN_2_5, IMAGE_FLUX}
StartBalances == {COST_WAN_2_5, 10, 50}

RECURSIVE SumSeq(_)
SumSeq(s) == IF s = <<>> THEN 0 ELSE Head(s) + SumSeq(Tail(s))

\* the call records of one synchronous turn, in call order
RECURSIVE Filter(_, _)
Filter(s, t) ==
    IF s = <<>> THEN <<>>
    ELSE IF Head(s).turn = t THEN <<Head(s)>> \o Filter(Tail(s), t)
         ELSE Filter(Tail(s), t)

Turns == {calls[i].turn : i \in DOMAIN calls}
CurrentTurn == IF calls = <<>> THEN 0 ELSE calls[Len(calls)].turn

\* The Balance Store as one value: what a deductCredits call reads and writes.
\* us is the userState of the render the calling closure belongs to.
Store == [calls |-> calls, nus |-> nextUserState, ref |-> balanceRef, inTurn |-> inTurn]

\* a new call record: the turn it belongs to and the balance that turn started with
\* (local: the local balance before the call, after: the local balance it leaves)
NewCall(st, us, amount, pc, result, local, after) ==
    LET last == IF st.calls = <<>> THEN 0 ELSE st.calls[Len(st.calls)].turn
        t == IF st.inTurn THEN last ELSE last + 1
        start == IF st.inTurn THEN st.calls[Len(st.calls)].start ELSE local
    IN  [amount |-> amount, pc |-> pc, result |-> result, turn |-> t, start |-> start,
         after |-> after, admin |-> us.isAdmin, value |-> 0,
         snap |-> us.balance, monthly |-> us.monthlyUsage]

(***************************************************************************)
(* The remote ledger: public.deduct_credits of src/supabase/rpc.sql        *)
(***************************************************************************)
deduct_credits(credits, amount_to_deduct) ==
    IF credits >= amount_to_deduct THEN credits - amount_to_deduct ELSE credits

(***************************************************************************)
(* Ref-based Balance Store (src/unnamed/part_002)                          *)
(***************************************************************************)
\* the balance the affordability check of deductCredits reads
Ref_StaleGuardBalance(st, us) == us.balance
Ref_GuardBalance(st, us) == st.ref

\* whether deductCredits returns true at once: the admin / unlimited role of the caller
Ref_NoBypass(us) == FALSE
Ref_Bypass(us) == us.isAdmin

\* deductCredits up to its first await, as a function of the store
Ref_deduct(st, us, amount) ==
    IF Ref_Bypass(us)
    THEN [st EXCEPT !.inTurn = TRUE,
                    !.calls = Append(@, NewCall(st, us, amount, "done", "true", st.ref, st.ref))]
    ELSE IF Ref_GuardBalance(st, us) < amount
    THEN [st EXCEPT !.inTurn = TRUE,
                    !.calls = Append(@, NewCall(st, us, amount, "done", "false", st.ref, st.ref))]
    ELSE [st EXCEPT !.inTurn = TRUE,
                    !.ref = @ - amount,
                    !.nus = [@ EXCEPT !.balance = st.ref - amount,
                                      !.monthlyUsage = @ + amount],
                    !.calls = Append(@, NewCall(st, us, amount,
                                                IF session THEN "rpc" ELSE "done",
                                                IF session THEN "pending" ELSE "true",
                                                st.ref, st.ref - amount))]

SetStore(st) ==
    /\ calls' = st.calls
    /\ nextUserState' = st.nus
    /\ balanceRef' = st.ref
    /\ inTurn' = st.inTurn

\* what deductCredits returns after its remote persistence ended with outcome: the
\* try/catch swallows every failure and the function ends in return true
Ref_SurfacedResult(outcome) == IF outcome = "ok" THEN "true" ELSE "false"
Ref_SyncResult(outcome) == "true"

\* supabase.rpc('deduct_credits') settles: no error, { error }, or a thrown exception
Ref_rpcSettles(i, outcome) ==
    /\ i \in DOMAIN calls
    /\ calls[i].pc = "rpc"
    /\ inTurn' = FALSE
    /\ CASE outcome = "ok" ->
              /\ remoteCredits' = deduct_credits(remoteCredits, calls[i].amount)
              /\ calls' = [calls EXCEPT ![i].pc = "done", ![i].result = "true"]
         [] outcome = "error" ->
              /\ calls' = [calls EXCEPT ![i].pc = "update", ![i].value = balanceRef]
              /\ UNCHANGED remoteCredits
         [] outcome = "throw" ->
              /\ calls' = [calls EXCEPT ![i].pc = "done", ![i].result = Ref_SyncResult(outcome)]
              /\ UNCHANGED remoteCredits
    /\ UNCHANGED <<userState, nextUserState, balanceRef, session>>
    /\ UNCHANGED uiVars

\* the fallback profiles.update({ credits: balanceRef.current }) settles
Ref_updateSettles(i, outcome) ==
    /\ i \in DOMAIN calls
    /\ calls[i].pc = "update"
    /\ inTurn' = FALSE
    /\ remoteCredits' = IF outcome = "ok" THEN calls[i].value ELSE remoteCredits
    /\ calls' = [calls EXCEPT ![i].pc = "done", ![i].result = Ref_SyncResult(outcome)]
    /\ UNCHANGED <<userState, nextUserState, balanceRef, session>>
    /\ UNCHANGED uiVars

\* a caller outside the orchestrator (the scene card's onDeductCredits)
Ref_deductCredits(amount) ==
    /\ Len(calls) < MaxCalls
    /\ SetStore(Ref_deduct(Store, userState, amount))
    /\ UNCHANGED <<userState, session, remoteCredits>>
    /\ UNCHANGED uiVars

(***************************************************************************)
(* React: a render publishes the committed state to the closures           *)
(***************************************************************************)
Committed == [jobs |-> activeVideoJobs, status |-> sceneStatus, images |-> sceneImages]

\* A click or a timer starts its handler from the closures of an up-to-date render:
\* React re-renders within the frame, the interval fires every 5 s.  The steps of the
\* component that are continuations of an await read their own closure and no rendered
\* value, so a render commutes with them: they are taken after it.
Rendered == view = Committed /\ userState = nextUserState

\* the cleanup of the poll effect, `return () => clearInterval(interval)`: the timers left
\* of iv when the effect whose callback closes over jobs is cleaned up
NoPollCleanup(iv, jobs) == iv
VG_pollCleanup(iv, jobs) == iv \ {jobs}

\* the poll effect (dependencies: activeVideoJobs) with a render: React runs the cleanup of
\* the previous effect, then the effect, whose setInterval callback closes over the
\* activeVideoJobs of this render
VG_pollEffect == VG_pollCleanup(intervals, view.jobs) \cup {activeVideoJobs}

Render ==
    /\ ~Rendered
    /\ mounted
    /\ userState' = nextUserState
    /\ view' = Committed
    /\ intervals' = VG_pollEffect
    /\ inTurn' = FALSE
    /\ UNCHANGED <<nextUserState, balanceRef, session, remoteCredits, calls>>
    /\ UNCHANGED <<activeVideoJobs, sceneStatus, sceneImages, sceneVideoUrls>>
    /\ UNCHANGED <<batches, singles, sweeps, isPricingOpen, topups, imageBatches, jobLog, now, mounted,
                   rpcs, requests, env, replicate_api_token, puts>>

\* the server side with no request in flight, the admin route switched off
NoEnv == [DISABLE_ADMIN |-> "true", ADMIN_PASSWORD |-> "undefined"]
ServerIdle ==
    /\ rpcs = <<>>
    /\ requests = <<>>
    /\ env = NoEnv
    /\ replicate_api_token = <<>>
    /\ puts = <<>>

\* the component after its first render, nothing started
InitUi ==
    /\ activeVideoJobs = [s \in Scenes |-> NoJob]
    /\ sceneStatus = [s \in Scenes |-> "idle"]
    /\ sceneImages = [s \in Scenes |-> FALSE]
    /\ sceneVideoUrls = [s \in Scenes |-> 0]
    /\ view = Committed
    /\ batches = <<>>
    /\ singles = <<>>
    /\ sweeps = EmptyBag
    /\ isPricingOpen = FALSE
    /\ topups = <<>>
    /\ imageBatches = <<>>
    /\ jobLog = <<>>
    /\ now = 0
    /\ intervals = {view.jobs}
    /\ mounted = TRUE

InitUiIdle == InitUi /\ ServerIdle

InitRef ==
    /\ \E b \in StartBalances, admin \in BOOLEAN :
         /\ userState = [balance |-> b, isAdmin |-> admin, monthlyUsage |-> 0]
         /\ nextUserState = userState
         /\ balanceRef = b
         /\ remoteCredits = b
    /\ session = TRUE
    /\ calls = <<>>
    /\ inTurn = FALSE
    /\ InitUiIdle

NextRef ==
    \/ \E a \in Amounts : Ref_deductCredits(a)
    \/ \E i \in 1..MaxCalls, o \in {"ok", "error", "throw"} : Ref_rpcSettles(i, o)
    \/ \E i \in 1..MaxCalls, o \in {"ok", "error"} : Ref_updateSettles(i, o)
    \/ Render

SpecRef == InitRef /\ [][NextRef]_vars

(***************************************************************************)
(* C1: no overspend in the ref-based Balance Store.  For a non-admin user, *)
(* in every run of deductCredits calls started back-to-back (no yield      *)
(* between the starts) the amounts of the calls that return true sum to at *)
(* most the local balance at the start of the run; with balance 38,        *)
(* deductCredits(38) twice gives true then false and leaves balance 0.     *)
(***************************************************************************)
TurnCalls(t) == Filter(calls, t)
TurnSpent(t) ==
    LET c == TurnCalls(t)
    IN  SumSeq([i \in DOMAIN c |-> IF c[i].result = "true" THEN c[i].amount ELSE 0])

C1_Scenario(c) ==
    /\ c[1].start = COST_WAN_2_5
    /\ Len(c) = 2
    /\ c[1].amount = COST_WAN_2_5
    /\ c[2].amount = COST_WAN_2_5

C1_NoOverspendRef ==
    \A t \in Turns :
        LET c == TurnCalls(t)
        IN  (~c[1].admin) =>
              /\ TurnSpent(t) <= c[1].start
              /\ C1_Scenario(c) =>
                     /\ c[1].result # "false" /\ c[1].after = 0
                     /\ c[2].result = "false" /\ c[2].after = 0

\* two affordable-once calls were started back-to-back and both have returned
C1_Witness ==
    \E t \in Turns :
        LET c == TurnCalls(t)
        IN  /\ ~c[1].admin
            /\ c[1].start = COST_WAN_2_5
            /\ Len(c) = 2
            /\ c[1].amount = COST_WAN_2_5 /\ c[2].amount = COST_WAN_2_5
            /\ c[1].result = "true" /\ c[2].result = "false"
            /\ c[2].after = 0

(***************************************************************************)
(* State-based Balance Store (src/context/AppContext.tsx)                  *)
(***************************************************************************)
\* deductCredits up to its first await: the check reads the rendered userState
Ctx_deduct(st, us, amount) ==
    IF us.isAdmin
    THEN [st EXCEPT !.inTurn = TRUE,
                    !.calls = Append(@, NewCall(st, us, amount, "done", "true",
                                                st.nus.balance, st.nus.balance))]
    ELSE IF us.balance < amount
    THEN [st EXCEPT !.inTurn = TRUE,
                    !.calls = Append(@, NewCall(st, us, amount, "done", "false",
                                                st.nus.balance, st.nus.balance))]
    ELSE IF session
    THEN [st EXCEPT !.inTurn = TRUE,
                    !.calls = Append(@, NewCall(st, us, amount, "rpc", "pending",
                                                st.nus.balance, st.nus.balance))]
    ELSE [st EXCEPT !.inTurn = TRUE,
                    !.nus = [@ EXCEPT !.balance = @ - amount],
                    !.calls = Append(@, NewCall(st, us, amount, "done", "true",
                                                st.nus.balance, st.nus.balance - amount))]

\* a caller outside the orchestrator (the scene card's onDeductCredits)
Ctx_deductCredits(amount) ==
    /\ Len(calls) < MaxCalls
    /\ SetStore(Ctx_deduct(Store, userState, amount))
    /\ UNCHANGED <<userState, session, remoteCredits>>
    /\ UNCHANGED uiVars

\* supabase.rpc('deduct_credits') settles: without error the function falls through to
\* setUserState(prev => prev.balance - amount); with { error } it issues the direct
\* update of credits to userState.balance - amount (the rendered balance of the call)
Ctx_rpcSettles(i, outcome) ==
    /\ i \in DOMAIN calls
    /\ calls[i].pc = "rpc"
    /\ inTurn' = FALSE
    /\ IF outcome = "ok"
       THEN /\ remoteCredits' = deduct_credits(remoteCredits, calls[i].amount)
            /\ nextUserState' = [nextUserState EXCEPT !.balance = @ - calls[i].amount]
            /\ calls' = [calls EXCEPT ![i].pc = "done", ![i].result = "true",
                                      ![i].after = nextUserState'.balance]
       ELSE /\ calls' = [calls EXCEPT ![i].pc = "update",
                                      ![i].value = calls[i].snap - calls[i].amount]
            /\ UNCHANGED <<remoteCredits, nextUserState>>
    /\ UNCHANGED <<userState, balanceRef, session>>
    /\ UNCHANGED uiVars

\* the direct update settles: updateError returns false without a local deduction
Ctx_updateSettles(i, outcome) ==
    /\ i \in DOMAIN calls
    /\ calls[i].pc = "update"
    /\ inTurn' = FALSE
    /\ IF outcome = "ok"
       THEN /\ remoteCredits' = calls[i].value
            /\ nextUserState' = [nextUserState EXCEPT !.balance = @ - calls[i].amount]
            /\ calls' = [calls EXCEPT ![i].pc = "done", ![i].result = "true",
                                      ![i].after = nextUserState'.balance]
       ELSE /\ calls' = [calls EXCEPT ![i].pc = "done", ![i].result = "false"]
            /\ UNCHANGED <<remoteCredits, nextUserState>>
    /\ UNCHANGED <<userState, balanceRef, session>>
    /\ UNCHANGED uiVars

InitCtx ==
    /\ \E b \in StartBalances, admin \in BOOLEAN :
         /\ userState = [balance |-> b, isAdmin |-> admin, monthlyUsage |-> 0]
         /\ nextUserState = userState
         /\ remoteCredits = b
    /\ balanceRef = 0
    /\ session = TRUE
    /\ calls = <<>>
    /\ inTurn = FALSE
    /\ InitUiIdle

NextCtx ==
    \/ \E a \in Amounts : Ctx_deductCredits(a)
    \/ \E i \in 1..MaxCalls, o \in {"ok", "error"} : Ctx_rpcSettles(i, o)
    \/ \E i \in 1..MaxCalls, o \in {"ok", "error"} : Ctx_updateSettles(i, o)
    \/ Render

SpecCtx == InitCtx /\ [][NextCtx]_vars

(***************************************************************************)
(* C2: no overspend in the state-based Balance Store.  When deductCredits  *)
(* calls are issued back-to-back before any remote round-trip settles, a   *)
(* later call sees the balance as reduced by the earlier ones: the calls   *)
(* of one turn that succeed never sum to more than the balance the turn    *)
(* started with, and the local balance of a non-admin user is never        *)
(* negative.                                                               *)
(***************************************************************************)
C2_NoOverspendCtx ==
    /\ \A t \in Turns :
          LET c == TurnCalls(t)
          IN  (~c[1].admin) => TurnSpent(t) <= c[1].start
    /\ (~userState.isAdmin) => nextUserState.balance >= 0

(***************************************************************************)
(* Render Orchestrator and Poller (src/components/VideoGenerator.tsx),     *)
(* with the state-based Balance Store it is written against                *)
(***************************************************************************)
\* settings.videoModel = 'wan_2_5', settings.imageModel = 'flux'
VG_videoCost == COST_WAN_2_5
NoImageCost == IMAGE_FLUX - IMAGE_FLUX
VG_imageCost == IMAGE_FLUX

\* what the closures of a handler started now see
Closure == [jobs |-> view.jobs, status |-> view.status, images |-> view.images,
            us |-> userState]
NoClosure == [jobs |-> [s \in Scenes |-> NoJob], status |-> [s \in Scenes |-> "idle"],
              images |-> [s \in Scenes |-> FALSE],
              us |-> [balance |-> 0, isAdmin |-> FALSE, monthlyUsage |-> 0]]
Finished == [pc |-> "done", scene |-> 0, job |-> 0, cl |-> NoClosure]

Outstanding(s) == activeVideoJobs[s].id # 0
TerminalStatus == {"done", "failed", "timed_out"}

\* a call of startVideoTask for scene s: the request is made; the job id is its index
Submit(log, s, by) ==
    Append(log, [scene |-> s, by |-> by, remote |-> "requested",
                 outstanding |-> Outstanding(s), done |-> sceneStatus[s] = "done",
                 registered |-> FALSE, startTime |-> 0,
                 resolved |-> FALSE, persisted |-> 0, polledLate |-> FALSE])

\* the job-status query of the provider for job j
RemoteStatus(j) == jobLog[j].remote

\* the affordability check and the call of startVideoTask of handleRenderVideos
VG_video(cl, s) ==
    IF cl.us.balance < VG_videoCost
    THEN [pc |-> "done", scene |-> 0]
    ELSE [pc |-> "video", scene |-> s]

\* handleRenderVideos from scene i to its next await (or its end)
RECURSIVE VG_loop(_, _)
VG_loop(cl, i) ==
    IF i > NumScenes THEN [pc |-> "done", scene |-> 0]
    ELSE IF cl.jobs[i].id # 0 \/ cl.status[i] = "done" THEN VG_loop(cl, i + 1)
    ELSE IF ~cl.images[i]
    THEN IF cl.us.balance < VG_imageCost
         THEN VG_loop(cl, i + 1)
         ELSE [pc |-> "image", scene |-> i]
    ELSE VG_video(cl, i)

\* the handler's record and the job log after the synchronous stretch ending in r
Proceed(r, cl, log, by) ==
    [rec |-> IF r.pc = "done" THEN Finished
             ELSE [pc |-> r.pc, scene |-> r.scene, cl |-> cl,
                   job |-> IF r.pc = "video" THEN Len(log) + 1 ELSE 0],
     log |-> IF r.pc = "video" THEN Submit(log, r.scene, by) ELSE log]

CanProceed(r) == r.pc = "video" => Len(jobLog) < MaxJobs

\* the job log and the job registry after startVideoTask returned job j for scene s
Registered(log, j) ==
    [log EXCEPT ![j].remote = "processing", ![j].registered = TRUE, ![j].startTime = now]

\* deductCredits(cost) is the statement after the await of generateImage / startVideoTask:
\* it is reached unless the awaited call threw
AlwaysReached(outcome) == TRUE
VG_Reached(outcome) == outcome # "throw"

\* click on "Render All Videos"
VG_handleRenderVideos ==
    /\ Rendered
    /\ Len(batches) < MaxBatches
    /\ LET cl == Closure
           r == VG_loop(cl, 1)
           p == Proceed(r, cl, jobLog, "batch")
       IN  /\ CanProceed(r)
           /\ batches' = Append(batches, p.rec)
           /\ jobLog' = p.log
    /\ inTurn' = FALSE
    /\ UNCHANGED <<userState, nextUserState, balanceRef, session, remoteCredits, calls>>
    /\ UNCHANGED <<activeVideoJobs, sceneStatus, sceneImages, sceneVideoUrls, view,
                   singles, sweeps, isPricingOpen, topups, imageBatches, now, intervals, mounted,
                   rpcs, requests, env, replicate_api_token, puts>>

\* generateImage of executeImageGeneration settles inside handleRenderVideos: it
\* returns a URL ("ok"), returns the missing output of a prediction that succeeded without
\* one ("empty": src/services/replicateService.ts 100-103), or throws
VG_imageSettles(b, outcome) ==
    /\ Rendered
    /\ b \in DOMAIN batches
    /\ batches[b].pc = "image"
    /\ LET cl == batches[b].cl
           s == batches[b].scene
           st == IF VG_Reached(outcome)
                 THEN Ctx_deduct([Store EXCEPT !.inTurn = FALSE], cl.us, VG_imageCost)
                 ELSE [Store EXCEPT !.inTurn = FALSE]
           r == IF outcome # "throw" THEN VG_video(cl, s) ELSE VG_loop(cl, s + 1)
           p == Proceed(r, cl, jobLog, "batch")
       IN  /\ CanProceed(r)
           /\ SetStore([st EXCEPT !.inTurn = FALSE])
           /\ sceneImages' = IF outcome = "ok" THEN [sceneImages EXCEPT ![s] = TRUE]
                             ELSE sceneImages
           /\ batches' = [batches EXCEPT ![b] = p.rec]
           /\ jobLog' = p.log
    /\ UNCHANGED <<userState, session, remoteCredits>>
    /\ UNCHANGED <<activeVideoJobs, sceneStatus, sceneVideoUrls, view,
                   singles, sweeps, isPricingOpen, topups, imageBatches, now, intervals, mounted,
                   rpcs, requests, env, replicate_api_token, puts>>

\* startVideoTask settles inside handleRenderVideos
VG_videoSettles(b, outcome) ==
    /\ Rendered
    /\ b \in DOMAIN batches
    /\ batches[b].pc = "video"
    /\ LET cl == batches[b].cl
           s == batches[b].scene
           j == batches[b].job
           st == IF VG_Reached(outcome) THEN Ctx_deduct([Store EXCEPT !.inTurn = FALSE], cl.us, VG_videoCost)
                 ELSE [Store EXCEPT !.inTurn = FALSE]
           log == IF outcome = "ok" THEN Registered(jobLog, j)
                  ELSE [jobLog EXCEPT ![j].remote = "rejected"]
           r == VG_loop(cl, s + 1)
           p == Proceed(r, cl, log, "batch")
       IN  /\ CanProceed(r)
           /\ SetStore([st EXCEPT !.inTurn = FALSE])
           /\ activeVideoJobs' = IF outcome = "ok"
                                 THEN [activeVideoJobs EXCEPT ![s] = [id |-> j, startTime |-> now]]
                                 ELSE activeVideoJobs
           /\ sceneStatus' = [sceneStatus EXCEPT ![s] = IF outcome = "ok" THEN "starting" ELSE "failed"]
           /\ batches' = [batches EXCEPT ![b] = p.rec]
           /\ jobLog' = p.log
    /\ UNCHANGED <<userState, session, remoteCredits>>
    /\ UNCHANGED <<sceneImages, sceneVideoUrls, view, singles, sweeps, isPricingOpen, topups, imageBatches, now, intervals, mounted,
                   rpcs, requests, env, replicate_api_token, puts>>

\* click on a scene card's "generate video"
VG_handleGenerateSingleVideo(s) ==
    /\ Rendered
    /\ Len(singles) < MaxSingles
    /\ Len(jobLog) < MaxJobs
    /\ LET cl == Closure
       IN  /\ cl.images[s]
           /\ ~(cl.us.balance < VG_videoCost)
           /\ sceneStatus' = [sceneStatus EXCEPT ![s] = "queued"]
           /\ jobLog' = Submit(jobLog, s, "single")
           /\ singles' = Append(singles, [pc |-> "video", scene |-> s, cl |-> cl,
                                          job |-> Len(jobLog) + 1])
    /\ inTurn' = FALSE
    /\ UNCHANGED <<userState, nextUserState, balanceRef, session, remoteCredits, calls>>
    /\ UNCHANGED <<activeVideoJobs, sceneImages, sceneVideoUrls, view,
                   batches, sweeps, isPricingOpen, topups, imageBatches, now, intervals, mounted,
                   rpcs, requests, env, replicate_api_token, puts>>

\* startVideoTask settles inside handleGenerateSingleVideo
VG_singleSettles(k, outcome) ==
    /\ Rendered
    /\ k \in DOMAIN singles
    /\ singles[k].pc = "video"
    /\ LET cl == singles[k].cl
           s == singles[k].scene
           j == singles[k].job
           st == IF VG_Reached(outcome) THEN Ctx_deduct([Store EXCEPT !.inTurn = FALSE], cl.us, VG_videoCost)
                 ELSE [Store EXCEPT !.inTurn = FALSE]
       IN  /\ SetStore([st EXCEPT !.inTurn = FALSE])
           /\ jobLog' = IF outcome = "ok" THEN Registered(jobLog, j)
                        ELSE [jobLog EXCEPT ![j].remote = "rejected"]
           /\ activeVideoJobs' = IF outcome = "ok"
                                 THEN [activeVideoJobs EXCEPT ![s] = [id |-> j, startTime |-> now]]
                                 ELSE activeVideoJobs
           /\ sceneStatus' = [sceneStatus EXCEPT ![s] = IF outcome = "ok" THEN "starting" ELSE "failed"]
           /\ singles' = [singles EXCEPT ![k] = Finished]
    /\ UNCHANGED <<userState, session, remoteCredits>>
    /\ UNCHANGED <<sceneImages, sceneVideoUrls, view, batches, sweeps, isPricingOpen, topups, imageBatches, now, intervals, mounted,
                   rpcs, requests, env, replicate_api_token, puts>>

\* what a sweep has decided for a scene once the status query of its job answered
\* (status: the statusUpdates entry, "none" for no entry)
VG_pollResult(remote) ==
    CASE remote = "succeeded" -> [status |-> "done", url |-> TRUE, delete |-> TRUE]
      [] remote = "succeeded_noout" -> [status |-> "failed", url |-> FALSE, delete |-> TRUE]
      [] remote = "failed" -> [status |-> "failed", url |-> FALSE, delete |-> TRUE]
      [] OTHER -> [status |-> "processing", url |-> FALSE, delete |-> FALSE]

VG_timedOut(job) == now - job.startTime > HARD_TIMEOUT_MS

\* the end of pollJobs: setSceneStatus, setSceneVideoUrls, setActiveVideoJobs(updates)
VG_pollApply(sw, log) ==
    /\ sceneStatus' = [s \in Scenes |-> IF sw.status[s] # "none" THEN sw.status[s]
                                        ELSE sceneStatus[s]]
    /\ sceneVideoUrls' = [s \in Scenes |-> IF sw.urls[s] # 0 THEN sw.urls[s]
                                           ELSE sceneVideoUrls[s]]
    /\ activeVideoJobs' = [s \in Scenes |-> IF s \in sw.deleted THEN NoJob ELSE sw.snap[s]]
    /\ jobLog' = [j \in DOMAIN log |->
                    IF \E s \in sw.deleted : sw.snap[s].id = j
                    THEN [log[j] EXCEPT !.resolved = TRUE] ELSE log[j]]

\* the interval fires: pollJobs up to the awaits of its status queries
VG_pollJobs ==
    /\ Rendered
    /\ BagCardinality(sweeps) < MaxSweeps
    /\ \E jobs \in intervals :
       LET active == {s \in Scenes : jobs[s].id # 0}
           late == {s \in active : VG_timedOut(jobs[s])}
           sw == [snap |-> jobs, pending |-> active \ late,
                  status |-> [s \in Scenes |-> IF s \in late THEN "timed_out" ELSE "none"],
                  urls |-> [s \in Scenes |-> 0], deleted |-> late]
       IN  /\ active # {}
           /\ IF sw.pending = {}
              THEN VG_pollApply(sw, jobLog) /\ UNCHANGED sweeps
              ELSE /\ sweeps' = sweeps (+) SetToBag({sw})
                   /\ UNCHANGED <<sceneStatus, sceneVideoUrls, activeVideoJobs, jobLog>>
    /\ inTurn' = FALSE
    /\ UNCHANGED <<userState, nextUserState, balanceRef, session, remoteCredits, calls>>
    /\ UNCHANGED <<sceneImages, view, batches, singles, isPricingOpen, topups, imageBatches, now, intervals, mounted,
                   rpcs, requests, env, replicate_api_token, puts>>

\* the sweep after the status query of scene s threw: the catch block of the scene's
\* callback logs the error, the results of the other scenes are kept
VG_pollUncaught(sw, s) ==
    [sw EXCEPT !.pending = {}, !.status = [t \in Scenes |-> "none"],
               !.urls = [t \in Scenes |-> 0], !.deleted = {}]
VG_pollThrowFails(sw, s) ==
    [sw EXCEPT !.pending = @ \ {s}, !.status[s] = "failed", !.deleted = @ \cup {s}]
VG_pollCaught(sw, s) == [sw EXCEPT !.pending = @ \ {s}]

\* checkPredictionStatus of one job of a sweep settles (answer: the provider's status now,
\* throw: the query fails); the last one to settle ends the sweep
VG_pollSettles(sw, s, outcome) ==
    /\ Rendered
    /\ BagIn(sw, sweeps)
    /\ s \in sw.pending
    /\ LET j == sw.snap[s].id
           res == VG_pollResult(RemoteStatus(j))
           sw2 == IF outcome = "throw" THEN VG_pollCaught(sw, s)
                  ELSE [sw EXCEPT !.pending = @ \ {s},
                                  !.status[s] = res.status,
                                  !.urls[s] = IF res.url THEN j ELSE 0,
                                  !.deleted = IF res.delete THEN @ \cup {s} ELSE @]
           log == IF outcome = "answer" /\ res.url
                  THEN [jobLog EXCEPT ![j].persisted = IF @ < MaxPersisted THEN @ + 1 ELSE @]
                  ELSE jobLog
       IN  IF sw2.pending = {}
           THEN VG_pollApply(sw2, log) /\ sweeps' = sweeps (-) SetToBag({sw})
           ELSE /\ sweeps' = (sweeps (-) SetToBag({sw})) (+) SetToBag({sw2})
                /\ jobLog' = log
                /\ UNCHANGED <<sceneStatus, sceneVideoUrls, activeVideoJobs>>
    /\ inTurn' = FALSE
    /\ UNCHANGED <<userState, nextUserState, balanceRef, session, remoteCredits, calls>>
    /\ UNCHANGED <<sceneImages, view, batches, singles, isPricingOpen, topups, imageBatches, now, intervals, mounted,
                   rpcs, requests, env, replicate_api_token, puts>>

(***************************************************************************)
(* The environment: the provider's jobs and the clock                      *)
(***************************************************************************)
RemoteTerminal == {"succeeded", "succeeded_noout", "failed", "canceled"}

\* the provider finishes job j
RemoteAdvance(j, status) ==
    /\ Rendered
    /\ j \in DOMAIN jobLog
    /\ jobLog[j].remote = "processing"
    /\ jobLog' = [jobLog EXCEPT ![j].remote = status]
    /\ inTurn' = FALSE
    /\ UNCHANGED <<userState, nextUserState, balanceRef, session, remoteCredits, calls>>
    /\ UNCHANGED <<activeVideoJobs, sceneStatus, sceneImages, sceneVideoUrls, view,
                   batches, singles, sweeps, isPricingOpen, topups, imageBatches, now, intervals, mounted,
                   rpcs, requests, env, replicate_api_token, puts>>

Tick ==
    /\ Rendered
    /\ now < MaxTicks * TickMs
    /\ now' = now + TickMs
    /\ inTurn' = FALSE
    /\ UNCHANGED <<intervals, mounted,
                   rpcs, requests, env, replicate_api_token, puts>>
    /\ UNCHANGED <<userState, nextUserState, balanceRef, session, remoteCredits, calls>>
    /\ UNCHANGED <<activeVideoJobs, sceneStatus, sceneImages, sceneVideoUrls, view,
                   batches, singles, sweeps, isPricingOpen, topups, imageBatches, jobLog>>

VGBalances == {COST_WAN_2_5, 100}

\* the component after its first render: the project's scenes may come with images
InitVG ==
    /\ \E b \in VGBalances :
         /\ userState = [balance |-> b, isAdmin |-> FALSE, monthlyUsage |-> 0]
         /\ nextUserState = userState
         /\ remoteCredits = b
    /\ balanceRef = 0
    /\ session = TRUE
    /\ calls = <<>>
    /\ inTurn = FALSE
    /\ activeVideoJobs = [s \in Scenes |-> NoJob]
    /\ sceneStatus = [s \in Scenes |-> "idle"]
    /\ sceneImages \in [Scenes -> BOOLEAN]
    /\ sceneVideoUrls = [s \in Scenes |-> 0]
    /\ view = Committed
    /\ batches = <<>>
    /\ singles = <<>>
    /\ sweeps = EmptyBag
    /\ isPricingOpen = FALSE
    /\ topups = <<>>
    /\ imageBatches = <<>>
    /\ jobLog = <<>>
    /\ now = 0
    /\ intervals = {view.jobs}
    /\ mounted = TRUE
    /\ ServerIdle

\* the orchestrator and the Balance Store it spends from
NextOrch ==
    \/ VG_handleRenderVideos
    \/ \E b \in 1..MaxBatches, o \in {"ok", "empty", "throw"} : VG_imageSettles(b, o)
    \/ \E b \in 1..MaxBatches, o \in {"ok", "throw"} : VG_videoSettles(b, o)
    \/ \E s \in Scenes : VG_handleGenerateSingleVideo(s)
    \/ \E k \in 1..MaxSingles, o \in {"ok", "throw"} : VG_singleSettles(k, o)
    \/ \E i \in DOMAIN calls, o \in {"ok", "error"} : Ctx_rpcSettles(i, o)
    \/ \E i \in DOMAIN calls, o \in {"ok", "error"} : Ctx_updateSettles(i, o)
    \/ Render

SpecOrch == InitVG /\ [][NextOrch]_vars

\* the poller, the jobs the scene cards register, the provider and the clock
NextPoll ==
    \/ \E s \in Scenes : VG_handleGenerateSingleVideo(s)
    \/ \E k \in 1..MaxSingles, o \in {"ok", "throw"} : VG_singleSettles(k, o)
    \/ VG_pollJobs
    \/ \E sw \in BagToSet(sweeps), s \in Scenes, o \in {"answer", "throw"} : VG_pollSettles(sw, s, o)
    \/ \E j \in DOMAIN jobLog, st \in RemoteTerminal : RemoteAdvance(j, st)
    \/ Tick
    \/ Render

\* every scene of the project has its image and the user can pay for every video
InitPoll ==
    /\ InitVG
    /\ userState.balance = 100
    /\ sceneImages = [s \in Scenes |-> TRUE]

SpecPoll == InitPoll /\ [][NextPoll]_vars

(***************************************************************************)
(* C3: spend order.  In handleRenderVideos and handleGenerateSingleVideo   *)
(* the successful credit deduction for a scene comes before the call of    *)
(* startVideoTask and the call is made only if the deduction succeeded:    *)
(* at every moment there are at least as many successful deductions of the *)
(* video cost as there are submissions.  A job is registered only after    *)
(* its submission has returned.                                            *)
(***************************************************************************)
VideoDeductions == {i \in DOMAIN calls : calls[i].amount = VG_videoCost /\ calls[i].result = "true"}

C3_SpendBeforeSubmit ==
    /\ Len(jobLog) <= Cardinality(VideoDeductions)
    /\ \A j \in DOMAIN jobLog :
          jobLog[j].registered => jobLog[j].remote \notin {"requested", "rejected"}

(***************************************************************************)
(* C4: duplicate-submission guard of handleGenerateSingleVideo.  The       *)
(* handler never calls startVideoTask for a scene that has an outstanding  *)
(* job in activeVideoJobs at the moment of the call.                       *)
(***************************************************************************)
C4_SingleGuard ==
    \A j \in DOMAIN jobLog : jobLog[j].by = "single" => ~jobLog[j].outstanding

(***************************************************************************)
(* C5: no duplicate submission in the batch.  handleRenderVideos never     *)
(* calls startVideoTask for a scene that, at the moment of the call, has   *)
(* an outstanding job or a 'done' video, whoever registered that job.      *)
(***************************************************************************)
C5_BatchNoDuplicate ==
    \A j \in DOMAIN jobLog :
        jobLog[j].by = "batch" => ~jobLog[j].outstanding /\ ~jobLog[j].done

(***************************************************************************)
(* C6: no lost or orphaned jobs.  Every job registered in activeVideoJobs  *)
(* stays there under its scene, with its id and start time unchanged,      *)
(* until a poll sweep resolves it (terminal status or hard timeout).       *)
(***************************************************************************)
C6_NoLostJobs ==
    \A j \in DOMAIN jobLog :
        (jobLog[j].registered /\ ~jobLog[j].resolved) =>
            activeVideoJobs[jobLog[j].scene] = [id |-> j, startTime |-> jobLog[j].startTime]

(***************************************************************************)
(* C7: terminal states are absorbing and resolution is idempotent.  Once a *)
(* sweep has resolved a job, no sweep puts the job back into               *)
(* activeVideoJobs, the status of its scene stays terminal for as long as  *)
(* no other job of the scene is pending, and the output of a job is         *)
(* persisted (updateSceneMedia) at most once.                              *)
(***************************************************************************)
\* no other job of the scene of job j is in flight or outstanding
OnlyJob(j) ==
    \A k \in DOMAIN jobLog \ {j} :
        jobLog[k].scene = jobLog[j].scene => jobLog[k].resolved \/ jobLog[k].remote = "rejected"

C7_TerminalAbsorbing ==
    \A j \in DOMAIN jobLog :
        /\ jobLog[j].persisted <= 1
        /\ jobLog[j].resolved => activeVideoJobs[jobLog[j].scene].id # j
        /\ (jobLog[j].resolved /\ OnlyJob(j)) => sceneStatus[jobLog[j].scene] \in TerminalStatus

(***************************************************************************)
(* Render Orchestrator and Poller of src/unnamed/part_000, with the        *)
(* ref-based Balance Store (src/unnamed/part_002) it is written against    *)
(***************************************************************************)
\* MODEL_MULTIPLIERS[settings.videoModel] || 1.0
P0_multiplier == 1
\* Math.ceil(baseCost * multiplier)
P0_finalCost == COST_WAN_2_5 * P0_multiplier

\* click on a scene card's "generate video"
P0_handleGenerateSingleVideo(s) ==
    /\ Rendered
    /\ Len(singles) < MaxSingles
    /\ Len(jobLog) < MaxJobs
    /\ LET cl == Closure
       IN  /\ cl.images[s]
           /\ IF ~cl.us.isAdmin /\ cl.us.balance < P0_finalCost
              THEN /\ isPricingOpen' = TRUE
                   /\ singles' = Append(singles, Finished)
                   /\ UNCHANGED <<sceneStatus, jobLog>>
              ELSE /\ sceneStatus' = [sceneStatus EXCEPT ![s] = "queued"]
                   /\ jobLog' = Submit(jobLog, s, "single")
                   /\ singles' = Append(singles, [pc |-> "video", scene |-> s, cl |-> cl,
                                                  job |-> Len(jobLog) + 1])
                   /\ UNCHANGED isPricingOpen
    /\ inTurn' = FALSE
    /\ UNCHANGED <<userState, nextUserState, balanceRef, session, remoteCredits, calls>>
    /\ UNCHANGED <<activeVideoJobs, sceneImages, sceneVideoUrls, view, batches, sweeps, now,
                   topups, imageBatches, intervals, mounted,
                   rpcs, requests, env, replicate_api_token, puts>>

\* startVideoTask settles inside handleGenerateSingleVideo
P0_singleSettles(k, outcome) ==
    /\ Rendered
    /\ k \in DOMAIN singles
    /\ singles[k].pc = "video"
    /\ LET cl == singles[k].cl
           s == singles[k].scene
           j == singles[k].job
           st == IF outcome = "ok" THEN Ref_deduct([Store EXCEPT !.inTurn = FALSE], cl.us, P0_finalCost)
                 ELSE [Store EXCEPT !.inTurn = FALSE]
       IN  /\ SetStore([st EXCEPT !.inTurn = FALSE])
           /\ jobLog' = IF outcome = "ok" THEN Registered(jobLog, j)
                        ELSE [jobLog EXCEPT ![j].remote = "rejected"]
           /\ activeVideoJobs' = IF outcome = "ok"
                                 THEN [activeVideoJobs EXCEPT ![s] = [id |-> j, startTime |-> now]]
                                 ELSE activeVideoJobs
           /\ sceneStatus' = [sceneStatus EXCEPT ![s] = IF outcome = "ok" THEN "starting" ELSE "failed"]
           /\ singles' = [singles EXCEPT ![k] = Finished]
    /\ UNCHANGED <<userState, session, remoteCredits>>
    /\ UNCHANGED <<sceneImages, sceneVideoUrls, view, batches, sweeps, isPricingOpen, topups, imageBatches, now, intervals, mounted,
                   rpcs, requests, env, replicate_api_token, puts>>

\* what the interval callback does with the answer of checkPredictionStatus
P0_pollResult(remote) ==
    CASE remote = "succeeded" -> [status |-> "done", url |-> TRUE, delete |-> TRUE]
      [] remote \in {"failed", "canceled"} -> [status |-> "failed", url |-> FALSE, delete |-> TRUE]
      [] remote = "succeeded_noout" -> [status |-> "succeeded", url |-> FALSE, delete |-> FALSE]
      [] OTHER -> [status |-> "processing", url |-> FALSE, delete |-> FALSE]

\* the interval fires: the callback up to the await of its first status query
P0_pollTick ==
    /\ Rendered
    /\ BagCardinality(sweeps) < MaxSweeps
    /\ \E jobs \in intervals :
       LET active == {s \in Scenes : jobs[s].id # 0}
           \* late: the jobs past the hard ceiling when the callback starts (not read by it)
           sw == [snap |-> jobs, pending |-> active,
                  late |-> {s \in active : VG_timedOut(jobs[s])}]
       IN  /\ active # {}
           /\ sweeps' = sweeps (+) SetToBag({sw})
    /\ inTurn' = FALSE
    /\ UNCHANGED <<userState, nextUserState, balanceRef, session, remoteCredits, calls>>
    /\ UNCHANGED <<activeVideoJobs, sceneStatus, sceneImages, sceneVideoUrls, view,
                   batches, singles, isPricingOpen, topups, imageBatches, jobLog, now, intervals, mounted,
                   rpcs, requests, env, replicate_api_token, puts>>

\* the status query of the callback's current scene settles: the functional updates of
\* its branch are applied and the loop moves on to the next scene of its snapshot
P0_pollSettles(sw, outcome) ==
    /\ Rendered
    /\ BagIn(sw, sweeps)
    /\ LET s == CHOOSE x \in sw.pending : \A y \in sw.pending : x <= y
           j == sw.snap[s].id
           res == P0_pollResult(RemoteStatus(j))
           sw2 == [sw EXCEPT !.pending = @ \ {s}]
           late == s \in sw.late
       IN  /\ IF outcome = "answer"
              THEN /\ sceneStatus' = [sceneStatus EXCEPT ![s] = res.status]
                   /\ sceneVideoUrls' = IF res.url THEN [sceneVideoUrls EXCEPT ![s] = j]
                                        ELSE sceneVideoUrls
                   /\ activeVideoJobs' = IF res.delete THEN [activeVideoJobs EXCEPT ![s] = NoJob]
                                         ELSE activeVideoJobs
                   /\ jobLog' = [jobLog EXCEPT ![j].resolved = @ \/ res.delete,
                                               ![j].polledLate = @ \/ late]
              ELSE /\ jobLog' = [jobLog EXCEPT ![j].polledLate = @ \/ late]
                   /\ UNCHANGED <<sceneStatus, sceneVideoUrls, activeVideoJobs>>
           /\ sweeps' = IF sw2.pending = {} THEN sweeps (-) SetToBag({sw})
                        ELSE (sweeps (-) SetToBag({sw})) (+) SetToBag({sw2})
    /\ inTurn' = FALSE
    /\ UNCHANGED <<userState, nextUserState, balanceRef, session, remoteCredits, calls>>
    /\ UNCHANGED <<sceneImages, view, batches, singles, isPricingOpen, topups, imageBatches, now, intervals, mounted,
                   rpcs, requests, env, replicate_api_token, puts>>

P0Balances == {COST_WAN_2_5, 100}

InitP0 ==
    /\ \E b \in P0Balances :
         /\ userState = [balance |-> b, isAdmin |-> FALSE, monthlyUsage |-> 0]
         /\ nextUserState = userState
         /\ balanceRef = b
         /\ remoteCredits = b
    /\ session = TRUE
    /\ calls = <<>>
    /\ inTurn = FALSE
    /\ activeVideoJobs = [s \in Scenes |-> NoJob]
    /\ sceneStatus = [s \in Scenes |-> "idle"]
    /\ sceneImages = [s \in Scenes |-> TRUE]
    /\ sceneVideoUrls = [s \in Scenes |-> 0]
    /\ view = Committed
    /\ batches = <<>>
    /\ singles = <<>>
    /\ sweeps = EmptyBag
    /\ isPricingOpen = FALSE
    /\ topups = <<>>
    /\ imageBatches = <<>>
    /\ jobLog = <<>>
    /\ now = 0
    /\ intervals = {view.jobs}
    /\ mounted = TRUE
    /\ ServerIdle

NextP0 ==
    \/ \E s \in Scenes : P0_handleGenerateSingleVideo(s)
    \/ \E k \in 1..MaxSingles, o \in {"ok", "throw"} : P0_singleSettles(k, o)
    \/ P0_pollTick
    \/ \E sw \in BagToSet(sweeps), o \in {"answer", "throw"} : P0_pollSettles(sw, o)
    \/ \E j \in DOMAIN jobLog, st \in RemoteTerminal : RemoteAdvance(j, st)
    \/ Tick
    \/ Render

\* The interval keeps firing, every request to the provider settles, handlers run to
\* their end, React renders and time passes; the provider owes no progress.
SpecP0 ==
    /\ InitP0
    /\ [][NextP0]_vars
    /\ WF_vars(P0_pollTick)
    /\ WF_vars(\E sw \in BagToSet(sweeps), o \in {"answer", "throw"} : P0_pollSettles(sw, o))
    /\ WF_vars(\E k \in 1..MaxSingles, o \in {"ok", "throw"} : P0_singleSettles(k, o))
    /\ WF_vars(Render)
    /\ WF_vars(Tick)

(***************************************************************************)
(* C8: timeout dominance.  A job that a poll sweep handles more than       *)
(* HARD_TIMEOUT_MS after its registration is resolved by that sweep: it    *)
(* leaves activeVideoJobs and its scene shows timed_out, whatever the      *)
(* status query answers.                                                   *)
(***************************************************************************)
C8_TimeoutDominance ==
    \A j \in DOMAIN jobLog :
        jobLog[j].polledLate =>
            /\ jobLog[j].resolved
            /\ OnlyJob(j) => sceneStatus[jobLog[j].scene] = "timed_out"

(***************************************************************************)
(* C9: missing output is failure.  The status of a scene is a success      *)
(* value (done, succeeded) only if the output URL of a job was captured    *)
(* for the scene: an answer 'succeeded' without output never makes the     *)
(* scene show success.                                                     *)
(***************************************************************************)
C9_MissingOutputIsFailure ==
    \A s \in Scenes : sceneStatus[s] \in {"done", "succeeded"} => sceneVideoUrls[s] # 0

(***************************************************************************)
(* C10: every outstanding job is eventually resolved.  With the poll       *)
(* sweeps running, every job registered in activeVideoJobs eventually      *)
(* leaves it, even if the provider never finishes the job or every status  *)
(* query fails.                                                            *)
(***************************************************************************)
IsOutstanding(j) ==
    /\ j \in DOMAIN jobLog
    /\ jobLog[j].registered
    /\ activeVideoJobs[jobLog[j].scene].id = j

C10_EventuallyResolved == \A j \in 1..MaxJobs : IsOutstanding(j) ~> ~IsOutstanding(j)

(***************************************************************************)
(* Ref-based Balance Store: buyCredits and upgradeUser                     *)
(* (src/unnamed/part_002)                                                  *)
(***************************************************************************)
CREATOR_CREDITS == 1000
DIRECTOR_CREDITS == 3500
UpgradeCredits == {CREATOR_CREDITS, DIRECTOR_CREDITS}
\* the credit packs buyCredits is called with
BuyAmounts == {COST_WAN_2_5}

\* the remote function add_credits (not part of the sources: "we might add this RPC later")
add_credits(credits, amount_to_add) == credits + amount_to_add

\* balanceRef.current += amount; setUserState(prev => ({ ...prev, balance: balanceRef.current }))
Ref_credit(amount) ==
    /\ balanceRef' = balanceRef + amount
    /\ nextUserState' = [nextUserState EXCEPT !.balance = balanceRef + amount]

\* buyCredits up to the await of the add_credits RPC
Ref_buyCredits(amount) ==
    /\ Len(topups) < MaxTopups
    /\ session
    /\ topups' = Append(topups, [kind |-> "buy", amount |-> amount, pc |-> "rpc",
                                 snap |-> userState.balance])
    /\ UNCHANGED balanceVars
    /\ UNCHANGED <<activeVideoJobs, sceneStatus, sceneImages, sceneVideoUrls, view,
                   batches, singles, sweeps, isPricingOpen, imageBatches, jobLog, now, intervals, mounted,
                   rpcs, requests, env, replicate_api_token, puts>>

\* the add_credits RPC settles: no error, { error }, or a thrown exception (not caught)
Ref_buyRpcSettles(k, outcome) ==
    /\ k \in DOMAIN topups
    /\ topups[k].kind = "buy" /\ topups[k].pc = "rpc"
    /\ inTurn' = FALSE
    /\ CASE outcome = "ok" ->
              /\ remoteCredits' = add_credits(remoteCredits, topups[k].amount)
              /\ Ref_credit(topups[k].amount)
              /\ topups' = [topups EXCEPT ![k].pc = "done"]
         [] outcome = "error" ->
              /\ topups' = [topups EXCEPT ![k].pc = "update"]
              /\ UNCHANGED <<remoteCredits, balanceRef, nextUserState>>
         [] outcome = "throw" ->
              /\ topups' = [topups EXCEPT ![k].pc = "done"]
              /\ UNCHANGED <<remoteCredits, balanceRef, nextUserState>>
    /\ UNCHANGED <<userState, session, calls>>
    /\ UNCHANGED <<activeVideoJobs, sceneStatus, sceneImages, sceneVideoUrls, view,
                   batches, singles, sweeps, isPricingOpen, imageBatches, jobLog, now, intervals, mounted,
                   rpcs, requests, env, replicate_api_token, puts>>

\* the fallback update({ credits: userState.balance + amount }) of buyCredits settles
Ref_buyUpdateSettles(k, outcome) ==
    /\ k \in DOMAIN topups
    /\ topups[k].kind = "buy" /\ topups[k].pc = "update"
    /\ inTurn' = FALSE
    /\ remoteCredits' = IF outcome = "ok" THEN topups[k].snap + topups[k].amount
                        ELSE remoteCredits
    /\ Ref_credit(topups[k].amount)
    /\ topups' = [topups EXCEPT ![k].pc = "done"]
    /\ UNCHANGED <<userState, session, calls>>
    /\ UNCHANGED <<activeVideoJobs, sceneStatus, sceneImages, sceneVideoUrls, view,
                   batches, singles, sweeps, isPricingOpen, imageBatches, jobLog, now, intervals, mounted,
                   rpcs, requests, env, replicate_api_token, puts>>

\* upgradeUser up to the await of its profiles.update
Ref_upgradeUser(creditsToAdd) ==
    /\ Len(topups) < MaxTopups
    /\ session
    /\ inTurn' = FALSE
    /\ Ref_credit(creditsToAdd)
    /\ topups' = Append(topups, [kind |-> "upgrade", amount |-> creditsToAdd, pc |-> "update",
                                 snap |-> userState.balance])
    /\ UNCHANGED <<userState, session, remoteCredits, calls>>
    /\ UNCHANGED <<activeVideoJobs, sceneStatus, sceneImages, sceneVideoUrls, view,
                   batches, singles, sweeps, isPricingOpen, imageBatches, jobLog, now, intervals, mounted,
                   rpcs, requests, env, replicate_api_token, puts>>

\* update({ credits: userState.balance + creditsToAdd }) of upgradeUser settles
Ref_upgradeSettles(k, outcome) ==
    /\ k \in DOMAIN topups
    /\ topups[k].kind = "upgrade" /\ topups[k].pc = "update"
    /\ inTurn' = FALSE
    /\ remoteCredits' = IF outcome = "ok" THEN topups[k].snap + topups[k].amount
                        ELSE remoteCredits
    /\ topups' = [topups EXCEPT ![k].pc = "done"]
    /\ UNCHANGED <<userState, nextUserState, balanceRef, session, calls>>
    /\ UNCHANGED <<activeVideoJobs, sceneStatus, sceneImages, sceneVideoUrls, view,
                   batches, singles, sweeps, isPricingOpen, imageBatches, jobLog, now, intervals, mounted,
                   rpcs, requests, env, replicate_api_token, puts>>

NextLedger ==
    \/ \E a \in Amounts : Len(calls) < MaxLedgerCalls /\ Ref_deductCredits(a)
    \/ \E i \in 1..MaxCalls, o \in {"ok", "error", "throw"} : Ref_rpcSettles(i, o)
    \/ \E i \in 1..MaxCalls, o \in {"ok", "error"} : Ref_updateSettles(i, o)
    \/ \E a \in BuyAmounts : Ref_buyCredits(a)
    \/ \E k \in 1..MaxTopups, o \in {"ok", "error", "throw"} : Ref_buyRpcSettles(k, o)
    \/ \E k \in 1..MaxTopups, o \in {"ok", "error"} : Ref_buyUpdateSettles(k, o)
    \/ \E c \in UpgradeCredits : Ref_upgradeUser(c)
    \/ \E k \in 1..MaxTopups, o \in {"ok", "error"} : Ref_upgradeSettles(k, o)
    \/ Render

LedgerBalances == {COST_WAN_2_5, 10}

\* a signed-in non-admin user after fetchProfile
InitLedger ==
    /\ \E b \in LedgerBalances :
         /\ userState = [balance |-> b, isAdmin |-> FALSE, monthlyUsage |-> 0]
         /\ nextUserState = userState
         /\ balanceRef = b
         /\ remoteCredits = b
    /\ session = TRUE
    /\ calls = <<>>
    /\ inTurn = FALSE
    /\ InitUiIdle

SpecLedger == InitLedger /\ [][NextLedger]_vars

(***************************************************************************)
(* C11: the balance is never negative.  In the ref-based Balance Store,    *)
(* under every interleaving of deductCredits, buyCredits, upgradeUser and  *)
(* the completions of their remote calls, balanceRef.current and the       *)
(* balance published to readers (committed and rendered userState) of a    *)
(* non-admin user are at least 0.                                          *)
(***************************************************************************)
C11_BalanceNeverNegative ==
    (~userState.isAdmin) =>
        /\ balanceRef >= 0
        /\ nextUserState.balance >= 0
        /\ userState.balance >= 0

\* a deduction was refused, another went through and a top-up has completed
C11_Witness ==
    /\ ~userState.isAdmin
    /\ \E i \in DOMAIN calls : calls[i].result = "false"
    /\ \E i \in DOMAIN calls : calls[i].result = "true"
    /\ \E k \in DOMAIN topups : topups[k].pc = "done"

(***************************************************************************)
(* Image batch of src/components/VideoGenerator.tsx: handleRenderImages    *)
(* and executeImageGeneration, with the state-based Balance Store          *)
(***************************************************************************)
\* The record of a handleRenderImages invocation.  Besides the position of the loop
\* (pc, scene) and its closure it keeps what the invocation did: start and lacking are
\* the balance and the number of scenes without image when it started, made the images
\* it generated, failed whether a generateImage call threw, visited the scenes the loop
\* reached, refused the scenes whose affordability check failed, observed / live the
\* balance its latest affordability check read and the Balance Store's balance at that
\* moment, cur the currentBalance tracker of part_000.
NewImageBatch(cl, live) ==
    [pc |-> "start", scene |-> 0, cl |-> cl, start |-> cl.us.balance,
     lacking |-> Cardinality({s \in Scenes : ~cl.images[s]}),
     made |-> 0, failed |-> FALSE, visited |-> {}, refused |-> {},
     observed |-> cl.us.balance, live |-> live, cur |-> cl.us.balance]

EndImageBatch(rec) == [rec EXCEPT !.pc = "done", !.scene = 0, !.cl = NoClosure]

\* handleRenderImages from scene i to its next await of generateImage (or its end);
\* executeImageGeneration throws on userState.balance < cost, the loop catches and goes on
RECURSIVE VG_imageLoop(_, _, _)
VG_imageLoop(rec, i, live) ==
    IF i > NumScenes THEN EndImageBatch(rec)
    ELSE IF rec.cl.images[i]
    THEN VG_imageLoop([rec EXCEPT !.visited = @ \cup {i}], i + 1, live)
    ELSE IF rec.cl.us.balance < VG_imageCost
    THEN VG_imageLoop([rec EXCEPT !.visited = @ \cup {i}, !.refused = @ \cup {i},
                                  !.observed = rec.cl.us.balance, !.live = live],
                      i + 1, live)
    ELSE [rec EXCEPT !.pc = "image", !.scene = i, !.visited = @ \cup {i},
                     !.observed = rec.cl.us.balance, !.live = live]

\* setSceneStatus(... 'failed') of the catch block for the scenes refused in this stretch
ImageStatus(old, new) ==
    [s \in Scenes |-> IF s \in new.refused \ old.refused THEN "failed" ELSE sceneStatus[s]]

\* click on "Render All Images"
VG_handleRenderImages ==
    /\ Rendered
    /\ Len(imageBatches) < MaxImageBatches
    /\ LET rec0 == NewImageBatch(Closure, nextUserState.balance)
           rec == VG_imageLoop(rec0, 1, nextUserState.balance)
       IN  /\ imageBatches' = Append(imageBatches, rec)
           /\ sceneStatus' = ImageStatus(rec0, rec)
    /\ inTurn' = FALSE
    /\ UNCHANGED <<userState, nextUserState, balanceRef, session, remoteCredits, calls>>
    /\ UNCHANGED <<activeVideoJobs, sceneImages, sceneVideoUrls, view,
                   batches, singles, sweeps, isPricingOpen, topups, jobLog, now, intervals, mounted,
                   rpcs, requests, env, replicate_api_token, puts>>

\* generateImage of executeImageGeneration settles inside handleRenderImages
VG_renderImageSettles(b, outcome) ==
    /\ Rendered
    /\ b \in DOMAIN imageBatches
    /\ imageBatches[b].pc = "image"
    /\ LET old == imageBatches[b]
           s == old.scene
           st == IF outcome = "ok"
                 THEN Ctx_deduct([Store EXCEPT !.inTurn = FALSE], old.cl.us, VG_imageCost)
                 ELSE [Store EXCEPT !.inTurn = FALSE]
           rec1 == IF outcome = "ok" THEN [old EXCEPT !.made = @ + 1]
                   ELSE [old EXCEPT !.failed = TRUE]
           rec == VG_imageLoop(rec1, s + 1, st.nus.balance)
       IN  /\ SetStore([st EXCEPT !.inTurn = FALSE])
           /\ sceneImages' = IF outcome = "ok" THEN [sceneImages EXCEPT ![s] = TRUE]
                             ELSE sceneImages
           /\ sceneStatus' = [t \in Scenes |->
                                IF t = s /\ outcome # "ok" THEN "failed"
                                ELSE ImageStatus(old, rec)[t]]
           /\ imageBatches' = [imageBatches EXCEPT ![b] = rec]
    /\ UNCHANGED <<userState, session, remoteCredits>>
    /\ UNCHANGED <<activeVideoJobs, sceneVideoUrls, view,
                   batches, singles, sweeps, isPricingOpen, topups, jobLog, now, intervals, mounted,
                   rpcs, requests, env, replicate_api_token, puts>>

ImageBalances == {5, 10, 12}

\* the component after its first render, for a user whose admin role is one of roles
InitImagesOf(roles) ==
    /\ \E b \in ImageBalances, admin \in roles :
         /\ userState = [balance |-> b, isAdmin |-> admin, monthlyUsage |-> 0]
         /\ nextUserState = userState
         /\ remoteCredits = b
         /\ balanceRef = b
    /\ session = TRUE
    /\ calls = <<>>
    /\ inTurn = FALSE
    /\ activeVideoJobs = [s \in Scenes |-> NoJob]
    /\ sceneStatus = [s \in Scenes |-> "idle"]
    /\ \E n \in 0..1 : sceneImages = [s \in Scenes |-> s <= n]
    /\ sceneVideoUrls = [s \in Scenes |-> 0]
    /\ view = Committed
    /\ batches = <<>>
    /\ singles = <<>>
    /\ sweeps = EmptyBag
    /\ isPricingOpen = FALSE
    /\ topups = <<>>
    /\ imageBatches = <<>>
    /\ jobLog = <<>>
    /\ now = 0
    /\ intervals = {view.jobs}
    /\ mounted = TRUE
    /\ ServerIdle

\* ... for a non-admin user
InitImages == InitImagesOf({FALSE})

\* the image batch, a paid operation of a scene card next to it, and the Balance Store
NextImages ==
    \/ VG_handleRenderImages
    \/ \E b \in 1..MaxImageBatches, o \in {"ok", "throw"} : VG_renderImageSettles(b, o)
    \/ Rendered /\ Len(calls) < MaxCardCalls /\ Ctx_deductCredits(VG_imageCost)
    \/ \E i \in DOMAIN calls, o \in {"ok", "error"} : Ctx_rpcSettles(i, o)
    \/ \E i \in DOMAIN calls, o \in {"ok", "error"} : Ctx_updateSettles(i, o)
    \/ Render

SpecImages == InitImages /\ [][NextImages]_vars

(***************************************************************************)
(* Image batch of src/unnamed/part_000: handleRenderImages and             *)
(* executeImageGeneration, with the ref-based Balance Store                *)
(***************************************************************************)
P0_imageCost == IMAGE_FLUX

\* handleRenderImages from scene i to its next await of generateImage (or its end):
\* the loop checks its currentBalance tracker, opens the pricing modal and breaks;
\* executeImageGeneration checks userState.balance, opens the modal and throws
RECURSIVE P0_imageLoop(_, _, _)
P0_imageLoop(rec, i, live) ==
    IF i > NumScenes THEN EndImageBatch(rec)
    ELSE IF rec.cl.images[i]
    THEN P0_imageLoop([rec EXCEPT !.visited = @ \cup {i}], i + 1, live)
    ELSE IF ~rec.cl.us.isAdmin /\ rec.cur < P0_imageCost
    THEN EndImageBatch([rec EXCEPT !.visited = @ \cup {i}, !.refused = @ \cup {i},
                                   !.observed = rec.cur, !.live = live])
    ELSE IF ~rec.cl.us.isAdmin /\ rec.cl.us.balance < P0_imageCost
    THEN P0_imageLoop([rec EXCEPT !.visited = @ \cup {i}, !.refused = @ \cup {i},
                                  !.observed = rec.cl.us.balance, !.live = live],
                      i + 1, live)
    ELSE [rec EXCEPT !.pc = "image", !.scene = i, !.visited = @ \cup {i},
                     !.observed = rec.cur, !.live = live]

\* setSceneStatus(... 'image_gen') for the scene whose generateImage is awaited
P0_imageStatus(rec) ==
    [s \in Scenes |-> IF rec.pc = "image" /\ rec.scene = s THEN "image_gen"
                      ELSE sceneStatus[s]]

\* click on "Render All Images"
P0_handleRenderImages ==
    /\ Rendered
    /\ session
    /\ Len(imageBatches) < MaxImageBatches
    /\ LET rec0 == NewImageBatch(Closure, balanceRef)
           rec == P0_imageLoop(rec0, 1, balanceRef)
       IN  /\ imageBatches' = Append(imageBatches, rec)
           /\ sceneStatus' = P0_imageStatus(rec)
           /\ isPricingOpen' = (isPricingOpen \/ rec.refused # {})
    /\ inTurn' = FALSE
    /\ UNCHANGED <<userState, nextUserState, balanceRef, session, remoteCredits, calls>>
    /\ UNCHANGED <<activeVideoJobs, sceneImages, sceneVideoUrls, view,
                   batches, singles, sweeps, topups, jobLog, now, intervals, mounted,
                   rpcs, requests, env, replicate_api_token, puts>>

\* generateImage of executeImageGeneration settles inside handleRenderImages
P0_renderImageSettles(b, outcome) ==
    /\ Rendered
    /\ b \in DOMAIN imageBatches
    /\ imageBatches[b].pc = "image"
    /\ LET old == imageBatches[b]
           s == old.scene
           st == IF outcome = "ok"
                 THEN Ref_deduct([Store EXCEPT !.inTurn = FALSE], old.cl.us, P0_imageCost)
                 ELSE [Store EXCEPT !.inTurn = FALSE]
           rec1 == IF outcome = "ok"
                   THEN [old EXCEPT !.made = @ + 1, !.cur = @ - P0_imageCost]
                   ELSE [old EXCEPT !.failed = TRUE]
           rec == P0_imageLoop(rec1, s + 1, st.ref)
       IN  /\ SetStore([st EXCEPT !.inTurn = FALSE])
           /\ sceneImages' = IF outcome = "ok" THEN [sceneImages EXCEPT ![s] = TRUE]
                             ELSE sceneImages
           /\ sceneStatus' = [t \in Scenes |->
                                IF t = s THEN (IF outcome = "ok" THEN "ready" ELSE "failed")
                                ELSE P0_imageStatus(rec)[t]]
           /\ imageBatches' = [imageBatches EXCEPT ![b] = rec]
           /\ isPricingOpen' = (isPricingOpen \/ rec.refused # old.refused)
    /\ UNCHANGED <<userState, session, remoteCredits>>
    /\ UNCHANGED <<activeVideoJobs, sceneVideoUrls, view,
                   batches, singles, sweeps, topups, jobLog, now, intervals, mounted,
                   rpcs, requests, env, replicate_api_token, puts>>

\* the image batch, a paid operation of a scene card next to it, and the Balance Store
NextP0Images ==
    \/ P0_handleRenderImages
    \/ \E b \in 1..MaxImageBatches, o \in {"ok", "throw"} : P0_renderImageSettles(b, o)
    \/ Rendered /\ Len(calls) < MaxCardCalls /\ Ref_deductCredits(P0_imageCost)
    \/ \E i \in DOMAIN calls, o \in {"ok", "error", "throw"} : Ref_rpcSettles(i, o)
    \/ \E i \in DOMAIN calls, o \in {"ok", "error"} : Ref_updateSettles(i, o)
    \/ Render

SpecP0Images == InitImages /\ [][NextP0Images]_vars

(***************************************************************************)
(* C12: the affordability check of every scene of an image batch observes  *)
(* the Balance Store's balance at that moment (deductions of earlier       *)
(* scenes and of concurrently running paid operations included), not a     *)
(* value captured when the batch started: the balance the latest check of  *)
(* a batch read is the balance the store held when it read it.             *)
(***************************************************************************)
C12_LiveAffordability ==
    \A b \in DOMAIN imageBatches : imageBatches[b].observed = imageBatches[b].live

(***************************************************************************)
(* C13: an image batch over N scenes without image, started with balance B *)
(* and per-image cost c, every generation call succeeding and nothing else *)
(* spending, produces exactly min(N, floor(B / c)) images and leaves the   *)
(* local balance at B - c * (images produced).                             *)
(***************************************************************************)
Minimum(a, b) == IF a <= b THEN a ELSE b

\* the batch has ended, no generateImage call failed, the batch's deductions are the
\* only ones and have all gone through
QuietImageBatch(b) ==
    /\ imageBatches[b].pc = "done"
    /\ ~imageBatches[b].failed
    /\ Len(calls) = imageBatches[b].made
    /\ \A i \in DOMAIN calls : calls[i].pc = "done" /\ calls[i].result = "true"

C13_ImageCount ==
    \A b \in DOMAIN imageBatches :
        QuietImageBatch(b) =>
            /\ imageBatches[b].made =
                 Minimum(imageBatches[b].lacking, imageBatches[b].start \div VG_imageCost)
            /\ nextUserState.balance =
                 imageBatches[b].start - VG_imageCost * imageBatches[b].made

(***************************************************************************)
(* C14: when an image batch finds the balance insufficient for a scene it  *)
(* raises the upgrade signal (the pricing prompt is open) and goes on to   *)
(* the next scene: a batch that has ended has visited every scene.         *)
(***************************************************************************)
C14_ContinueOnInsufficient ==
    \A b \in DOMAIN imageBatches :
        /\ imageBatches[b].refused # {} => isPricingOpen
        /\ imageBatches[b].pc = "done" => imageBatches[b].visited = Scenes

(***************************************************************************)
(* C15: startVideoTask is never called for a scene without a resolved      *)
(* image URL: every scene a video job was submitted for has its image.     *)
(* (sceneImages only grows, so a job submitted without image shows.)       *)
(***************************************************************************)
C15_VideoRequiresImage ==
    \A j \in DOMAIN jobLog : sceneImages[jobLog[j].scene]

(***************************************************************************)
(* C16: for a non-admin user, a deductCredits(amount) call made while the  *)
(* local balance is below amount returns false, leaves the local balance   *)
(* (ref and published state) and the monthly usage unchanged and issues no *)
(* remote ledger call.                                                     *)
(***************************************************************************)
\* this step is the synchronous part of a deductCredits call
DeductCalled == Len(calls') = Len(calls) + 1
TheCall == calls'[Len(calls')]

C16_Step ==
    (DeductCalled /\ ~TheCall.admin /\ nextUserState.balance < TheCall.amount) =>
        /\ TheCall.result = "false"
        /\ TheCall.pc = "done"
        /\ nextUserState' = nextUserState
        /\ balanceRef' = balanceRef
        /\ remoteCredits' = remoteCredits

C16_InsufficientNoMutation == [][C16_Step]_vars

(***************************************************************************)
(* C17: for an admin / unlimited user deductCredits(amount) returns true   *)
(* for every amount, leaves the local balance unchanged and issues no      *)
(* remote ledger write: the call is finished when it returns and nothing   *)
(* happens to it afterwards.                                               *)
(***************************************************************************)
C17_Step ==
    /\ (DeductCalled /\ userState.isAdmin) =>
          /\ TheCall.result = "true"
          /\ TheCall.pc = "done"
          /\ nextUserState' = nextUserState
          /\ balanceRef' = balanceRef
          /\ remoteCredits' = remoteCredits
    /\ \A i \in DOMAIN calls : calls[i].admin => calls'[i] = calls[i]

C17_AdminBypass == [][C17_Step]_vars

\* an admin's call for more than the balance has returned true, nothing was written
C17_Witness ==
    /\ userState.isAdmin
    /\ \E i \in DOMAIN calls :
         /\ calls[i].amount > balanceRef
         /\ calls[i].result = "true"
    /\ remoteCredits = balanceRef

(***************************************************************************)
(* C18: for an admin / unlimited user no paid step of the orchestrator is  *)
(* refused or skipped for insufficient balance, whatever the number in the *)
(* balance: no image batch of an admin has refused a scene.                *)
(***************************************************************************)
\* the image batch of src/components/VideoGenerator.tsx for users of either role
InitAnyRole == InitImagesOf(BOOLEAN)

SpecAnyRole == InitAnyRole /\ [][NextImages]_vars

C18_AdminNeverRefused ==
    userState.isAdmin => \A b \in DOMAIN imageBatches : imageBatches[b].refused = {}

(***************************************************************************)
(* C19: in the ref-based deductCredits, once the local decrement has been  *)
(* applied the call returns true and the local balance stays decremented   *)
(* for every outcome of the remote persistence (RPC error, fallback write  *)
(* error, thrown exception): no step of the persistence changes the local  *)
(* balance and the call never ends with false.                             *)
(***************************************************************************)
\* call i has deducted locally and awaits its RPC or its fallback write
Persisting(i) == calls[i].pc \in {"rpc", "update"}

C19_Step ==
    \A i \in DOMAIN calls :
        (Persisting(i) /\ calls'[i] # calls[i]) =>
            /\ balanceRef' = balanceRef
            /\ nextUserState' = nextUserState
            /\ calls'[i].result # "false"
            /\ calls'[i].pc = "done" => calls'[i].result = "true"

C19_NoRollback == [][C19_Step]_vars

\* a call has returned true although its RPC and its fallback write failed: the local
\* balance is below the remote one
C19_Witness ==
    /\ ~userState.isAdmin
    /\ Len(calls) = 1
    /\ calls[1].pc = "done"
    /\ calls[1].result = "true"
    /\ remoteCredits = balanceRef + calls[1].amount

(***************************************************************************)
(* C20: the direct overwrite of the remote credits is issued by a call     *)
(* whose deduct_credits RPC has just settled (with an error), and the      *)
(* value it writes is the store's local balance with the call's deduction, *)
(* as the store holds it when the write is issued.  The state-based store  *)
(* applies the deduction to its state after the write, so there that value *)
(* is the store's balance less the amount.                                 *)
(***************************************************************************)
\* call i issues the fallback profiles.update in this step
FallbackIssued(i) == calls[i].pc # "update" /\ calls'[i].pc = "update"

C20_Step ==
    \A i \in DOMAIN calls :
        FallbackIssued(i) =>
            /\ calls[i].pc = "rpc"
            /\ remoteCredits' = remoteCredits
            /\ calls'[i].value = nextUserState.balance - calls[i].amount

C20_FallbackValue == [][C20_Step]_vars

(***************************************************************************)
(* C21: credit is synchronous-first.  buyCredits and upgradeUser raise the *)
(* local balance in the step that starts them, before any remote           *)
(* persistence call is awaited, and the completions of those calls do not  *)
(* touch it: a deductCredits call started while the remote write is        *)
(* pending sees the credited balance.                                      *)
(***************************************************************************)
\* this step is the synchronous part of a buyCredits / upgradeUser call
CreditCalled == Len(topups') = Len(topups) + 1
TheTopup == topups'[Len(topups')]

C21_Step ==
    /\ CreditCalled =>
          /\ balanceRef' = balanceRef + TheTopup.amount
          /\ nextUserState'.balance = balanceRef'
    /\ \A k \in DOMAIN topups : topups'[k] # topups[k] => balanceRef' = balanceRef

C21_CreditSynchronousFirst == [][C21_Step]_vars

(***************************************************************************)
(* Session lifecycle of the state-based Balance Store                      *)
(* (src/context/AppContext.tsx): onAuthStateChange, fetchProfile, logout   *)
(***************************************************************************)
LOW_CREDITS == 5
AUTO_TOPUP == 50

\* the balance fetchProfile publishes for the credits the profile row holds
Ctx_fetchedBalance(credits) == IF credits < LOW_CREDITS THEN AUTO_TOPUP ELSE credits

\* fetchProfile: the select returns the profile row.  Credits below 5 are replaced by 50
\* and the update({ credits: 50 }) is fired without being awaited.  (With { error } the
\* function returns without any effect.)
Ctx_fetchProfile ==
    /\ session
    /\ remoteCredits < LOW_CREDITS => Len(topups) < MaxTopups
    /\ nextUserState' = [nextUserState EXCEPT !.balance = Ctx_fetchedBalance(remoteCredits)]
    /\ topups' = IF remoteCredits < LOW_CREDITS
                 THEN Append(topups, [kind |-> "auto", amount |-> AUTO_TOPUP, pc |-> "update",
                                      snap |-> remoteCredits])
                 ELSE topups
    /\ nextUserState' # nextUserState \/ topups' # topups
    /\ inTurn' = FALSE
    /\ UNCHANGED <<userState, balanceRef, session, remoteCredits, calls>>
    /\ UNCHANGED <<activeVideoJobs, sceneStatus, sceneImages, sceneVideoUrls, view,
                   batches, singles, sweeps, isPricingOpen, imageBatches, jobLog, now, intervals, mounted,
                   rpcs, requests, env, replicate_api_token, puts>>

\* the fire-and-forget update({ credits: 50 }) of fetchProfile settles
Ctx_autoTopupSettles(k, outcome) ==
    /\ k \in DOMAIN topups
    /\ topups[k].kind = "auto" /\ topups[k].pc = "update"
    /\ inTurn' = FALSE
    /\ remoteCredits' = IF outcome = "ok" THEN topups[k].amount ELSE remoteCredits
    /\ topups' = [topups EXCEPT ![k].pc = "done"]
    /\ UNCHANGED <<userState, nextUserState, balanceRef, session, calls>>
    /\ UNCHANGED <<activeVideoJobs, sceneStatus, sceneImages, sceneVideoUrls, view,
                   batches, singles, sweeps, isPricingOpen, imageBatches, jobLog, now, intervals, mounted,
                   rpcs, requests, env, replicate_api_token, puts>>

\* logout: signOut ends the session; the onAuthStateChange handler gets session = null
\* and resets the user state
Ctx_logout ==
    /\ session
    /\ session' = FALSE
    /\ nextUserState' = [nextUserState EXCEPT !.balance = 0, !.isAdmin = FALSE]
    /\ inTurn' = FALSE
    /\ UNCHANGED <<userState, balanceRef, remoteCredits, calls>>
    /\ UNCHANGED uiVars

\* the onAuthStateChange handler gets a session: setSession; fetchProfile is started
Ctx_signIn ==
    /\ ~session
    /\ session' = TRUE
    /\ inTurn' = FALSE
    /\ UNCHANGED <<userState, nextUserState, balanceRef, remoteCredits, calls>>
    /\ UNCHANGED uiVars

\* the credits the profile row holds when the first session starts
StoredCredits == 10

\* a signed-in non-admin user after the first fetchProfile
InitCtxSession ==
    /\ userState = [balance |-> StoredCredits, isAdmin |-> FALSE, monthlyUsage |-> 0]
    /\ nextUserState = userState
    /\ remoteCredits = StoredCredits
    /\ balanceRef = 0
    /\ session = TRUE
    /\ calls = <<>>
    /\ inTurn = FALSE
    /\ InitUiIdle

\* no deductCredits call is in flight
Settled == \A i \in DOMAIN calls : calls[i].pc = "done"

\* the session lifecycle and a caller that spends one deduction at a time
NextCtxSession ==
    \/ \E a \in Amounts : Rendered /\ Settled /\ Ctx_deductCredits(a)
    \/ \E i \in DOMAIN calls, o \in {"ok", "error"} : Ctx_rpcSettles(i, o)
    \/ \E i \in DOMAIN calls, o \in {"ok", "error"} : Ctx_updateSettles(i, o)
    \/ Ctx_fetchProfile
    \/ \E k \in DOMAIN topups, o \in {"ok", "error"} : Ctx_autoTopupSettles(k, o)
    \/ Ctx_logout
    \/ Ctx_signIn
    \/ Render

SpecCtxSession == InitCtxSession /\ [][NextCtxSession]_vars

(***************************************************************************)
(* C22: the balance grows only by purchase, upgrade or grant.  A profile   *)
(* fetch publishes the credits the remote ledger holds and writes no       *)
(* larger value back, so without a purchase, upgrade or grant the total a  *)
(* non-admin user spends, over any number of fetches and sessions, is at   *)
(* most the credits stored at the start.                                   *)
(***************************************************************************)
RECURSIVE SpentUpTo(_)
SpentUpTo(n) ==
    IF n = 0 THEN 0
    ELSE SpentUpTo(n - 1) +
         (IF calls[n].result = "true" /\ ~calls[n].admin THEN calls[n].amount ELSE 0)

Spent == SpentUpTo(Len(calls))

C22_SpendBounded == Spent <= StoredCredits

(***************************************************************************)
(* Session lifecycle of the ref-based Balance Store (src/unnamed/part_002) *)
(***************************************************************************)
\* fetchProfile: the select returns the profile row; data.credits goes to the ref and to
\* the published state.  (With { error } the function returns without any effect.)
Ref_fetchProfile ==
    /\ session
    /\ balanceRef' = remoteCredits
    /\ nextUserState' = [nextUserState EXCEPT !.balance = remoteCredits]
    /\ balanceRef' # balanceRef \/ nextUserState' # nextUserState
    /\ inTurn' = FALSE
    /\ UNCHANGED <<userState, session, remoteCredits, calls>>
    /\ UNCHANGED uiVars

\* logout: after signOut, setSession(null), setIsAuthenticated(false), setProfile(null)
Ref_logout ==
    /\ session
    /\ session' = FALSE
    /\ inTurn' = FALSE
    /\ UNCHANGED <<userState, nextUserState, balanceRef, remoteCredits, calls>>
    /\ UNCHANGED uiVars

NextRefSession ==
    \/ \E a \in Amounts : Len(calls) < MaxLedgerCalls /\ Ref_deductCredits(a)
    \/ \E i \in DOMAIN calls, o \in {"ok", "error", "throw"} : Ref_rpcSettles(i, o)
    \/ \E i \in DOMAIN calls, o \in {"ok", "error"} : Ref_updateSettles(i, o)
    \/ Ref_fetchProfile
    \/ Ref_logout
    \/ Render

SpecRefSession == InitRef /\ [][NextRefSession]_vars

(***************************************************************************)
(* C23: the balance is discarded on logout.  After logout the Balance      *)
(* Store holds none of the previous session's balance or admin role, and a *)
(* deductCredits call made after logout does not succeed.                  *)
(***************************************************************************)
C23_Step ==
    /\ ~session' =>
          /\ balanceRef' <= 0
          /\ nextUserState'.balance <= 0
          /\ ~nextUserState'.isAdmin
    /\ (DeductCalled /\ ~session) => TheCall.result = "false"

C23_DiscardedOnLogout == [][C23_Step]_vars

(***************************************************************************)
(* C24: remote failed / canceled are terminal.  When the status query of   *)
(* an outstanding job reports failed or canceled, the sweep resolves the   *)
(* scene to a terminal status and removes the job from the outstanding     *)
(* set: it is in the sweep's results when the sweep goes on, and applied   *)
(* when that query was the sweep's last.                                   *)
(***************************************************************************)
RemoteDead == {"failed", "canceled"}

\* the answer for scene s has been taken into the results of a sweep still under way
SweepResolved(snap, s) ==
    \E sw2 \in BagToSet(sweeps') :
        /\ sw2.snap = snap
        /\ s \in sw2.deleted
        /\ sw2.status[s] \in TerminalStatus

\* ... or the sweep has ended and applied it
SweepApplied(s) == sceneStatus'[s] \in TerminalStatus /\ activeVideoJobs'[s] = NoJob

C24_Step ==
    \A sw \in BagToSet(sweeps), s \in Scenes :
        (/\ s \in sw.pending
         /\ RemoteStatus(sw.snap[s].id) \in RemoteDead
         /\ VG_pollSettles(sw, s, "answer"))
        => (SweepResolved(sw.snap, s) \/ SweepApplied(s))

C24_DeadIsTerminal == [][C24_Step]_vars

(***************************************************************************)
(* C25: per-job failure isolation in a sweep.  When the status query of    *)
(* one outstanding job throws, the results of the other jobs of the same   *)
(* sweep are kept (status update, URL capture, removal from the            *)
(* outstanding set): they stay in the sweep's results while it goes on and *)
(* are applied when the failed query was its last.                         *)
(***************************************************************************)
\* the scenes of sweep sw whose query has been answered, or that the sweep timed out
Answered(sw) == {t \in Scenes : sw.status[t] # "none"}

\* the result for scene t is in the results of the sweep going on after this step
ResultKept(sw, t) ==
    \E sw2 \in BagToSet(sweeps') :
        /\ sw2.snap = sw.snap
        /\ sw2.status[t] = sw.status[t]
        /\ sw2.urls[t] = sw.urls[t]
        /\ (t \in sw2.deleted) = (t \in sw.deleted)

\* the result for scene t is applied by this step
ResultApplied(sw, t) ==
    /\ sceneStatus'[t] = sw.status[t]
    /\ sw.urls[t] # 0 => sceneVideoUrls'[t] = sw.urls[t]
    /\ t \in sw.deleted => activeVideoJobs'[t] = NoJob

C25_Step ==
    \A sw \in BagToSet(sweeps), s \in Scenes :
        (s \in sw.pending /\ VG_pollSettles(sw, s, "throw")) =>
            \A t \in Answered(sw) : ResultKept(sw, t) \/ ResultApplied(sw, t)

C25_FailureIsolation == [][C25_Step]_vars

\* a sweep over two jobs: the query of one has thrown, the other, whose job the
\* provider has finished, is still to be answered
C25_Witness ==
    \E sw \in BagToSet(sweeps) :
        \E s \in Scenes, t \in Scenes :
            /\ sw.snap[s].id # 0 /\ sw.snap[t].id # 0
            /\ s \notin sw.pending /\ sw.status[s] = "none"
            /\ t \in sw.pending
            /\ RemoteStatus(sw.snap[t].id) = "succeeded"

(***************************************************************************)
(* C26: a polling failure does not resolve the job.  When a status query   *)
(* throws, the job stays in the outstanding set with its start time, the   *)
(* scene's status and the job's resolution are unchanged (so the next      *)
(* sweep queries it again), and a sweep that starts after the hard ceiling *)
(* resolves the job to timed_out without querying it, whatever its earlier *)
(* queries did.                                                            *)
(***************************************************************************)
\* the sweep started by this step has timed scene s out
SweepTimedOut(s) ==
    \/ sceneStatus'[s] = "timed_out" /\ activeVideoJobs'[s] = NoJob
    \/ \E sw2 \in BagToSet(sweeps') :
          /\ sw2.snap = view.jobs
          /\ s \notin sw2.pending
          /\ s \in sw2.deleted
          /\ sw2.status[s] = "timed_out"

C26_Step ==
    /\ \A sw \in BagToSet(sweeps), s \in Scenes :
          (s \in sw.pending /\ VG_pollSettles(sw, s, "throw")) =>
              /\ sceneStatus'[s] = sceneStatus[s]
              /\ jobLog'[sw.snap[s].id].resolved = jobLog[sw.snap[s].id].resolved
              /\ activeVideoJobs[s] = sw.snap[s] => activeVideoJobs'[s] = sw.snap[s]
    /\ VG_pollJobs =>
          \A s \in Scenes :
              (view.jobs[s].id # 0 /\ VG_timedOut(view.jobs[s])) => SweepTimedOut(s)

C26_PollingFailureKeepsJob == [][C26_Step]_vars

\* a query of a job has thrown in a sweep still under way, the job is outstanding
\* with its start time and the hard ceiling has passed since
C26_Witness ==
    \E sw \in BagToSet(sweeps), s \in Scenes :
        /\ sw.snap[s].id # 0
        /\ s \notin sw.pending /\ sw.status[s] = "none"
        /\ activeVideoJobs[s] = sw.snap[s]
        /\ ~jobLog[sw.snap[s].id].resolved
        /\ VG_timedOut(activeVideoJobs[s])

(***************************************************************************)
(* C27: orchestrator failure isolation.  In handleRenderVideos, when an    *)
(* external call of a scene's pipeline fails (generateImage or             *)
(* startVideoTask throws), the scene is marked failed and the loop goes on *)
(* with the scenes after it.                                               *)
(***************************************************************************)
\* batch b has left scene s behind
MovedOn(b, s) == batches'[b].pc = "done" \/ batches'[b].scene > s

C27_Step ==
    \A b \in DOMAIN batches :
        (VG_imageSettles(b, "throw") \/ VG_videoSettles(b, "throw")) =>
            /\ sceneStatus'[batches[b].scene] = "failed"
            /\ MovedOn(b, batches[b].scene)

C27_FailureIsolation == [][C27_Step]_vars

(***************************************************************************)
(* C28: a missing image is charged separately.  When handleRenderVideos    *)
(* meets a scene without image and both generation steps succeed for a     *)
(* non-admin user, deductCredits is called once with the image cost when   *)
(* the image is there and once with the video cost when the video is       *)
(* submitted, neither call is refused, and a call that has returned true   *)
(* has lowered the balance by its amount, once.                            *)
(***************************************************************************)
\* this step calls deductCredits(amount) and the call is not refused
Charged(amount) ==
    /\ DeductCalled
    /\ TheCall.amount = amount
    /\ ~TheCall.admin => TheCall.result # "false"

C28_Step ==
    /\ \A b \in DOMAIN batches :
          /\ VG_imageSettles(b, "ok") => Charged(IMAGE_FLUX)
          /\ VG_videoSettles(b, "ok") => Charged(COST_WAN_2_5)
    /\ \A i \in DOMAIN calls :
          /\ (calls[i].pc # "done" /\ calls'[i].result = "true") =>
                nextUserState'.balance = nextUserState.balance - calls[i].amount
          /\ calls[i].pc = "done" => calls'[i] = calls[i]

VG_unmount ==
    /\ mounted
    /\ mounted' = FALSE
    /\ intervals' = VG_pollCleanup(intervals, view.jobs)
    /\ inTurn' = FALSE
    /\ UNCHANGED <<userState, nextUserState, balanceRef, session, remoteCredits, calls>>
    /\ UNCHANGED <<activeVideoJobs, sceneStatus, sceneImages, sceneVideoUrls, view,
                   batches, singles, sweeps, isPricingOpen, topups, imageBatches, jobLog, now,
                   rpcs, requests, env, replicate_api_token, puts>>

\* the poller and the scene cards while the component is mounted; a timer that is still
\* set fires whether the component is mounted or not
NextPoller ==
    \/ mounted /\ \E s \in Scenes : VG_handleGenerateSingleVideo(s)
    \/ mounted /\ \E k \in 1..MaxSingles, o \in {"ok", "throw"} : VG_singleSettles(k, o)
    \/ VG_pollJobs
    \/ mounted /\ \E sw \in BagToSet(sweeps), s \in Scenes, o \in {"answer", "throw"} :
                     VG_pollSettles(sw, s, o)
    \/ mounted /\ \E j \in DOMAIN jobLog, st \in RemoteTerminal : RemoteAdvance(j, st)
    \/ Render
    \/ VG_unmount

SpecPoller == InitPoll /\ [][NextPoller]_vars

(***************************************************************************)
(* C29: the Poller is cancellable.  After every step at most one sweep     *)
(* timer is set; once the component is torn down none is; and a sweep is   *)
(* only ever started by the timer of the effect of the last render, while  *)
(* the component is mounted: a timer that was cleared by the re-run of the *)
(* effect or by the teardown starts no sweep.                              *)
(***************************************************************************)
C29_Step ==
    /\ Cardinality(intervals') <= 1
    /\ ~mounted' => intervals' = {}
    /\ VG_pollJobs => (mounted /\ intervals = {view.jobs})

C29_PollerCancellable == [][C29_Step]_vars

\* the component was torn down while a job was being polled: the timer is gone
C29_Witness ==
    /\ ~mounted
    /\ intervals = {}
    /\ \E s \in Scenes : view.jobs[s].id # 0
    /\ sweeps # EmptyBag

(***************************************************************************)
(* deductCredits(amount, details?) of src/unnamed/part_002: the Spend      *)
(* Record                                                                  *)
(***************************************************************************)
\* the optional argument: undefined, or the model, base cost and multiplier of a video
NoDetails == [model |-> "undefined", base |-> 0, mult |-> 0]
Details == {NoDetails, [model |-> "wan_2_5", base |-> COST_WAN_2_5, mult |-> P0_multiplier]}

\* the arguments of the deduct_credits RPC: details?.model || 'unknown',
\* details?.base || 0, details?.mult || 1
Ref_rpcArgs(amount, details) ==
    [amount_to_deduct |-> amount,
     model_used |-> IF details = NoDetails THEN "unknown" ELSE details.model,
     base_cost |-> IF details = NoDetails THEN 0 ELSE details.base,
     multiplier |-> IF details = NoDetails \/ details.mult = 0 THEN 1 ELSE details.mult]
NoArgs == [amount_to_deduct |-> 0, model_used |-> "none", base_cost |-> 0, multiplier |-> 0]

\* a deductCredits that refuses a call without details
Ref_deductRecorded(st, us, amount, details) ==
    LET r == IF details = NoDetails
             THEN [st EXCEPT !.inTurn = TRUE,
                             !.calls = Append(@, NewCall(st, us, amount, "done", "false",
                                                         st.ref, st.ref))]
             ELSE Ref_deduct(st, us, amount)
        n == Len(r.calls)
    IN  [r EXCEPT !.calls[n] = @ @@ [args |-> NoArgs]]

\* deductCredits(amount, details): the details are read for the arguments of the RPC only
Ref_deductWith(st, us, amount, details) ==
    LET r == Ref_deduct(st, us, amount)
        n == Len(r.calls)
    IN  [r EXCEPT !.calls[n] = @ @@ [args |-> IF @.pc = "rpc" THEN Ref_rpcArgs(amount, details)
                                              ELSE NoArgs]]

Ref_deductCreditsWith(amount, details) ==
    /\ Len(calls) < MaxCalls
    /\ SetStore(Ref_deductWith(Store, userState, amount, details))
    /\ UNCHANGED <<userState, session, remoteCredits>>
    /\ UNCHANGED uiVars

NextRecord ==
    \/ \E a \in Amounts, d \in Details : Ref_deductCreditsWith(a, d)
    \/ \E i \in 1..MaxCalls, o \in {"ok", "error", "throw"} : Ref_rpcSettles(i, o)
    \/ \E i \in 1..MaxCalls, o \in {"ok", "error"} : Ref_updateSettles(i, o)
    \/ Render

SpecRecord == InitRef /\ [][NextRecord]_vars

(***************************************************************************)
(* C30: the Spend Record is advisory.  For the same store and amount,      *)
(* deductCredits called with details and called without them leaves the    *)
(* same local balance (ref and state) and returns the same result, and the *)
(* call that was made is one of the two; a call that went to the remote    *)
(* ledger returns true whatever record it carried.                         *)
(***************************************************************************)
ResultOf(st) == st.calls[Len(st.calls)].result

C30_Step ==
    /\ DeductCalled =>
          LET without == Ref_deductWith(Store, userState, TheCall.amount, NoDetails)
          IN  /\ \A d \in Details :
                    LET with == Ref_deductWith(Store, userState, TheCall.amount, d)
                    IN  /\ with.ref = without.ref
                        /\ with.nus = without.nus
                        /\ ResultOf(with) = ResultOf(without)
              /\ balanceRef' = without.ref
              /\ nextUserState' = without.nus
              /\ TheCall.result = ResultOf(without)
    /\ \A i \in DOMAIN calls :
          (calls[i].pc # "done" /\ calls'[i].pc = "done") => calls'[i].result = "true"

C30_RecordAdvisory == [][C30_Step]_vars

\* the same amount was deducted once without details and once with them: both calls
\* returned true and took the same amount off the balance
C30_Witness ==
    /\ Len(calls) = 2
    /\ {calls[1].args.model_used, calls[2].args.model_used} = {"unknown", "wan_2_5"}
    /\ calls[1].amount = calls[2].amount
    /\ calls[1].result = "true" /\ calls[2].result = "true"
    /\ calls[2].after = calls[1].start - calls[1].amount - calls[2].amount
    /\ balanceRef = calls[2].after

(***************************************************************************)
(* The ref-based Balance Store of one session whose remote calls all       *)
(* complete: an RPC succeeds or returns an error, the fallback overwrite   *)
(* that follows an error succeeds                                          *)
(***************************************************************************)
NextReconcile ==
    \/ \E a \in Amounts : Ref_deductCredits(a)
    \/ \E i \in 1..MaxCalls, o \in {"ok", "error"} : Ref_rpcSettles(i, o)
    \/ \E i \in 1..MaxCalls : Ref_updateSettles(i, "ok")
    \/ Render

SpecReconcile == InitLedger /\ [][NextReconcile]_vars

(***************************************************************************)
(* C31: ledger reconciliation converges.  With no other writer to the      *)
(* account, once every remote call started by the deductCredits calls of   *)
(* the session has completed (RPC success, or RPC error followed by the    *)
(* fallback overwrite, in any order), the remote credits equal the local   *)
(* balance.                                                                *)
(***************************************************************************)
AllSettled == \A i \in DOMAIN calls : calls[i].pc = "done"

C31_ReconciliationConverges == AllSettled => remoteCredits = balanceRef

(***************************************************************************)
(* C32: every accepted generation is paid for.  For a non-admin user, the  *)
(* step that stores an image in sceneImages and the step that registers a  *)
(* video job in activeVideoJobs call deductCredits with the cost of the    *)
(* generation, and no such call returns false: the generations the         *)
(* provider accepted never cost more than what was deducted.               *)
(***************************************************************************)
ImageStored(s) == sceneImages'[s] /\ ~sceneImages[s]
JobRegistered(j) == jobLog'[j].registered /\ ~jobLog[j].registered
Paid(amount) == DeductCalled /\ TheCall.amount = amount /\ TheCall.result # "false"

C32_Step ==
    /\ \A s \in Scenes : ImageStored(s) => Paid(VG_imageCost)
    /\ \A j \in DOMAIN jobLog : JobRegistered(j) => Paid(VG_videoCost)
    /\ \A i \in DOMAIN calls : calls'[i].result = "false" => calls[i].result = "false"

C32_AcceptedIsPaid == [][C32_Step]_vars

(***************************************************************************)
(* public.deduct_credits of src/supabase/rpc.sql, statement by statement.  *)
(* Each call is a transaction of its own at the default isolation level    *)
(* (read committed): the SELECT reads the committed row, the UPDATE takes  *)
(* the row lock and computes credits - amount_to_deduct from the row as it *)
(* is then.  The function takes no lock between the two (no FOR UPDATE).   *)
(***************************************************************************)
MaxRpcs == 3

\* a client calls the function: begin
rpc_call(amount_to_deduct) ==
    /\ Len(rpcs) < MaxRpcs
    /\ rpcs' = Append(rpcs, [pc |-> "select", amount_to_deduct |-> amount_to_deduct,
                             current_credits |-> 0, result |-> "pending",
                             stored |-> IF rpcs = <<>> THEN remoteCredits ELSE rpcs[1].stored])
    /\ UNCHANGED <<balanceVars, activeVideoJobs, sceneStatus, sceneImages, sceneVideoUrls,
                   view, batches, singles, sweeps, isPricingOpen, topups, imageBatches,
                   jobLog, now, intervals, mounted, requests, env, replicate_api_token, puts>>

\* select credits into current_credits ...; if current_credits >= amount_to_deduct
rpc_select(i) ==
    /\ i \in DOMAIN rpcs
    /\ rpcs[i].pc = "select"
    /\ rpcs' = IF remoteCredits >= rpcs[i].amount_to_deduct
               THEN [rpcs EXCEPT ![i].pc = "update", ![i].current_credits = remoteCredits]
               ELSE [rpcs EXCEPT ![i].pc = "done", ![i].current_credits = remoteCredits,
                                 ![i].result = "false"]
    /\ UNCHANGED <<balanceVars, activeVideoJobs, sceneStatus, sceneImages, sceneVideoUrls,
                   view, batches, singles, sweeps, isPricingOpen, topups, imageBatches,
                   jobLog, now, intervals, mounted, requests, env, replicate_api_token, puts>>

\* update public.profiles set credits = credits - amount_to_deduct; return true
rpc_update(i) ==
    /\ i \in DOMAIN rpcs
    /\ rpcs[i].pc = "update"
    /\ remoteCredits' = remoteCredits - rpcs[i].amount_to_deduct
    /\ rpcs' = [rpcs EXCEPT ![i].pc = "done", ![i].result = "true"]
    /\ UNCHANGED <<userState, nextUserState, balanceRef, session, calls, inTurn>>
    /\ UNCHANGED <<activeVideoJobs, sceneStatus, sceneImages, sceneVideoUrls,
                   view, batches, singles, sweeps, isPricingOpen, topups, imageBatches,
                   jobLog, now, intervals, mounted, requests, env, replicate_api_token, puts>>

NextRpc ==
    \/ \E a \in Amounts : rpc_call(a)
    \/ \E i \in 1..MaxRpcs : rpc_select(i)
    \/ \E i \in 1..MaxRpcs : rpc_update(i)

\* nobody is signed in on this client; the user's row holds some credits
InitSignedOut ==
    /\ userState = [balance |-> 0, isAdmin |-> FALSE, monthlyUsage |-> 0]
    /\ nextUserState = userState
    /\ balanceRef = 0
    /\ session = FALSE
    /\ calls = <<>>
    /\ inTurn = FALSE
    /\ InitUi

InitRpc ==
    /\ remoteCredits \in StartBalances
    /\ InitSignedOut
    /\ ServerIdle

SpecRpc == InitRpc /\ [][NextRpc]_vars

(***************************************************************************)
(* C33: the server-side deduct_credits is safe under concurrency.  Under   *)
(* every interleaving of concurrent calls for one user the stored credits  *)
(* are never negative and the amounts of the calls that return true sum to *)
(* at most the credits stored at the start.                                *)
(***************************************************************************)
RECURSIVE GrantedUpTo(_)
GrantedUpTo(n) ==
    IF n = 0 THEN 0
    ELSE GrantedUpTo(n - 1) + (IF rpcs[n].result = "true" THEN rpcs[n].amount_to_deduct ELSE 0)

C33_ServerSideSafe ==
    /\ remoteCredits >= 0
    /\ rpcs # <<>> => GrantedUpTo(Len(rpcs)) <= rpcs[1].stored

(***************************************************************************)
(* C34: a profile refresh does not resurrect spent credits.  When          *)
(* fetchProfile reads the remote ledger while the remote persistence of a  *)
(* local deduction is still in flight, the local balance after the refresh *)
(* is not higher than before it, that is, than the balance before the      *)
(* deductions minus the amounts already deducted locally.                  *)
(***************************************************************************)
PersistenceInFlight == \E i \in DOMAIN calls : calls[i].pc # "done"

C34_Step ==
    (Ref_fetchProfile /\ PersistenceInFlight) =>
        /\ balanceRef' <= balanceRef
        /\ nextUserState'.balance <= nextUserState.balance

C34_NoResurrection == [][C34_Step]_vars

(***************************************************************************)
(* C35: upgrade persists the local value.  The credits that upgradeUser    *)
(* writes to the remote ledger are the local balance the upgrade produced  *)
(* (the previous local balance plus the credits of the tier), also when a  *)
(* deduction or purchase preceded the upgrade within the same render.      *)
(***************************************************************************)
\* the credits the profiles.update of upgrade t carries
UpgradeWrites(t) == t.snap + t.amount

C35_Step ==
    /\ (CreditCalled /\ TheTopup.kind = "upgrade") =>
          /\ balanceRef' = balanceRef + TheTopup.amount
          /\ UpgradeWrites(TheTopup) = balanceRef'
    /\ \A k \in DOMAIN topups :
          (topups[k].kind = "upgrade" /\ Ref_upgradeSettles(k, "ok")) =>
              remoteCredits' = UpgradeWrites(topups[k])

C35_UpgradePersistsLocal == [][C35_Step]_vars

(***************************************************************************)
(* C36: a failed submission costs nothing.  When generateImage or          *)
(* startVideoTask throws for a scene, that step makes no deductCredits     *)
(* call, leaves the local balance as it is and registers no job for the    *)
(* scene; a job the provider rejected is never registered.                 *)
(***************************************************************************)
SubmissionThrew ==
    \/ \E b \in DOMAIN batches : VG_imageSettles(b, "throw") \/ VG_videoSettles(b, "throw")
    \/ \E k \in DOMAIN singles : VG_singleSettles(k, "throw")

C36_Step ==
    /\ SubmissionThrew =>
          /\ calls' = calls
          /\ nextUserState' = nextUserState
          /\ activeVideoJobs' = activeVideoJobs
    /\ \A j \in DOMAIN jobLog' : jobLog'[j].remote = "rejected" => ~jobLog'[j].registered

C36_FailedSubmissionFree == [][C36_Step]_vars

\* startVideoTask threw for a scene: nothing was deducted, the scene has no job
C36_Witness ==
    \E j \in DOMAIN jobLog :
        /\ jobLog[j].remote = "rejected"
        /\ calls = <<>>
        /\ nextUserState.balance = remoteCredits
        /\ activeVideoJobs[jobLog[j].scene].id = 0
        /\ sceneStatus[jobLog[j].scene] = "failed"

(***************************************************************************)
(* generateImage of src/services/replicateService.ts: what the promise     *)
(* does for the final status of the prediction and its output              *)
(***************************************************************************)
PredictionFinal == {"succeeded", "failed", "canceled"}
\* prediction.output: a URL, an array of URLs, an empty array, or null
PredictionOutput == {"url", "array", "empty_array", "null"}

\* Array.isArray(output) ? output[0] : output
FirstOutput(output) ==
    CASE output = "array" -> "url"
      [] output = "empty_array" -> "undefined"
      [] OTHER -> output

\* "ok": resolves with a URL; "empty": resolves with undefined or null; "throw": rejects
generateImage(status, output) ==
    IF status = "succeeded"
    THEN IF FirstOutput(output) = "url" THEN "ok" ELSE "empty"
    ELSE "throw"

(***************************************************************************)
(* C37: generateImage succeeds only with an image.  It resolves only when  *)
(* the final status is 'succeeded' and the value is a present image URL;   *)
(* 'failed', 'canceled' and 'succeeded' without output make it throw, so   *)
(* that the step of the orchestrator that receives the outcome deducts no  *)
(* credits and records no image for the scene.                             *)
(***************************************************************************)
WithImage(status, output) == status = "succeeded" /\ output \in {"url", "array"}

C37_Step ==
    \A b \in DOMAIN batches, status \in PredictionFinal, output \in PredictionOutput :
        (~WithImage(status, output) /\ VG_imageSettles(b, generateImage(status, output))) =>
            /\ generateImage(status, output) = "throw"
            /\ calls' = calls
            /\ sceneImages' = sceneImages

C37_ImageOrThrow == [][C37_Step]_vars

(***************************************************************************)
(* The predict proxy: handler of src/api/replicate.ts ("api") and          *)
(* POST /api/replicate/predict of src/unnamed/part_001 ("server")          *)
(***************************************************************************)
MaxRequests == 2
Handlers == {"api", "server"}
\* const maxRetries = 2 (src/api/replicate.ts), const maxRetries = 3 (part_001)
maxRetries(h) == IF h = "api" THEN 2 ELSE 3

OK == 200
TOO_MANY_REQUESTS == 429
\* what fetch gives: an upstream status, or 0 for a fetch that throws
UpstreamStatus == {OK, TOO_MANY_REQUESTS, 500}
FetchThrows == 0

\* the retry condition of the loop
RetryNotOk(status, attempt, max) == status # OK /\ attempt < max
predict_retry(status, attempt, max) == status = TOO_MANY_REQUESTS /\ attempt < max

\* res.status(status).json(...): one more response of request r
Respond(r, status) == [r EXCEPT !.pc = "done", !.responses = Append(@, status)]

\* a POST arrives; token: the Replicate token is configured, body: version and input
\* are present.  The handler runs to its first await of fetch (or to its response).
predict_post(h, token, body) ==
    /\ Len(requests) < MaxRequests
    /\ LET r == [handler |-> h, pc |-> "fetch", attempt |-> 0, upstream |-> <<>>,
                 responses |-> <<>>]
       IN  requests' = Append(requests,
                              IF ~token THEN Respond(r, 500)
                              ELSE IF ~body THEN Respond(r, 400)
                              ELSE r)
    /\ UNCHANGED <<balanceVars, activeVideoJobs, sceneStatus, sceneImages, sceneVideoUrls,
                   view, batches, singles, sweeps, isPricingOpen, topups, imageBatches,
                   jobLog, now, intervals, mounted, rpcs, env, replicate_api_token, puts>>

\* the loop after `continue`: attempt++, then the loop test; past the loop the handler of
\* src/api/replicate.ts answers 429, the one of part_001 ends without a response
predict_continue(r) ==
    IF r.attempt + 1 <= maxRetries(r.handler)
    THEN [r EXCEPT !.attempt = @ + 1]
    ELSE IF r.handler = "api" THEN Respond(r, TOO_MANY_REQUESTS)
    ELSE [r EXCEPT !.pc = "done"]

\* the fetch of request i settles with an upstream status or throws
predict_fetchSettles(i, status) ==
    /\ i \in DOMAIN requests
    /\ requests[i].pc = "fetch"
    /\ LET r == [requests[i] EXCEPT !.upstream = Append(@, status)]
       IN  requests' = [requests EXCEPT ![i] =
                          IF status = FetchThrows THEN Respond(r, 500)
                          ELSE IF predict_retry(status, r.attempt, maxRetries(r.handler))
                          THEN predict_continue(r)
                          ELSE Respond(r, status)]
    /\ UNCHANGED <<balanceVars, activeVideoJobs, sceneStatus, sceneImages, sceneVideoUrls,
                   view, batches, singles, sweeps, isPricingOpen, topups, imageBatches,
                   jobLog, now, intervals, mounted, rpcs, env, replicate_api_token, puts>>

NextPredict ==
    \/ \E h \in Handlers, token \in BOOLEAN, body \in BOOLEAN : predict_post(h, token, body)
    \/ \E i \in 1..MaxRequests, st \in UpstreamStatus \cup {FetchThrows} :
          predict_fetchSettles(i, st)

InitPredict ==
    /\ remoteCredits = 0
    /\ InitSignedOut
    /\ ServerIdle

SpecPredict == InitPredict /\ [][NextPredict]_vars

(***************************************************************************)
(* C38: the retry protocol of the predict proxy.  For every POST the       *)
(* handler makes at most maxRetries + 1 upstream requests, every upstream  *)
(* request but the last was answered 429 (nothing else is retried), a      *)
(* non-OK status of the last one is forwarded as it is, and the client     *)
(* gets exactly one response on every path, also when the last attempt is  *)
(* still rate-limited.                                                     *)
(***************************************************************************)
RetryProtocol(r) ==
    /\ Len(r.upstream) <= maxRetries(r.handler) + 1
    /\ \A n \in 1..(Len(r.upstream) - 1) : r.upstream[n] = TOO_MANY_REQUESTS
    /\ Len(r.responses) <= 1
    /\ r.pc = "done" =>
          /\ Len(r.responses) = 1
          /\ (r.upstream # <<>> /\ r.upstream[Len(r.upstream)] # FetchThrows) =>
                r.responses[1] = r.upstream[Len(r.upstream)]

MaxPuts == 2
\* values of process.env.DISABLE_ADMIN and process.env.ADMIN_PASSWORD
Switches == {"true", "false", "undefined"}
AdminPasswords == {"undefined", "", "secret"}
\* body.password and body.token; a token is a string, given by its characters
Passwords == {"undefined", "", "secret", "guess"}
NoToken == [defined |-> FALSE, chars |-> <<>>]
Tokens == {NoToken} \cup
          [defined : {TRUE},
           chars : {<<>>, <<"r", "8", "_", "x">>, <<"r", "8", "_", "x", " ">>,
                    <<" ", "r", "8", "_", "x">>, <<"s", "k", "_", "x">>, <<"r", "8">>}]

\* !token
Falsy(token) == ~token.defined \/ token.chars = <<>>

\* token.startsWith('r8_')
startsWith_r8(token) == Len(token.chars) >= 3 /\ SubSeq(token.chars, 1, 3) = <<"r", "8", "_">>

\* token.trim()
RECURSIVE trimStart(_)
trimStart(t) == IF t # <<>> /\ Head(t) = " " THEN trimStart(Tail(t)) ELSE t
RECURSIVE trimEnd(_)
trimEnd(t) == IF t # <<>> /\ t[Len(t)] = " " THEN trimEnd(SubSeq(t, 1, Len(t) - 1)) ELSE t
trim(t) == trimEnd(trimStart(t))

\* 1. Check Kill-switch
NeverDisabled(e) == FALSE
AdminDisabled(e) == e.DISABLE_ADMIN = "true"

\* the status of the response of PUT for a body (malformed: req.json() throws)
PUT_status(e, malformed, password, token) ==
    IF AdminDisabled(e) THEN 403
    ELSE IF malformed THEN 500
    ELSE IF e.ADMIN_PASSWORD \in {"undefined", ""} \/ password # e.ADMIN_PASSWORD THEN 401
    ELSE IF Falsy(token) \/ ~startsWith_r8(token) THEN 400
    ELSE OK

\* a PUT request is handled
PUT(malformed, password, token) ==
    /\ Len(puts) < MaxPuts
    /\ LET status == PUT_status(env, malformed, password, token)
       IN  /\ puts' = Append(puts, [malformed |-> malformed, password |-> password,
                                    token |-> token, status |-> status])
           /\ replicate_api_token' = IF status = OK THEN trim(token.chars) ELSE replicate_api_token
    /\ UNCHANGED <<balanceVars, activeVideoJobs, sceneStatus, sceneImages, sceneVideoUrls,
                   view, batches, singles, sweeps, isPricingOpen, topups, imageBatches,
                   jobLog, now, intervals, mounted, rpcs, requests, env>>

NextAdmin == \E malformed \in BOOLEAN, password \in Passwords, token \in Tokens :
                 PUT(malformed, password, token)

InitAdmin ==
    /\ remoteCredits = 0
    /\ InitSignedOut
    /\ rpcs = <<>>
    /\ requests = <<>>
    /\ env \in [DISABLE_ADMIN : Switches, ADMIN_PASSWORD : AdminPasswords]
    /\ replicate_api_token = <<>>
    /\ puts = <<>>

SpecAdmin == InitAdmin /\ [][NextAdmin]_vars

(***************************************************************************)
(* C39: the gate of the admin token update.  PUT stores a new token only   *)
(* if DISABLE_ADMIN is not 'true', ADMIN_PASSWORD is configured and equals *)
(* the supplied password, and the token starts with 'r8_'; a rejected      *)
(* request leaves the stored token unchanged; with the kill-switch on the  *)
(* request is refused as disabled (403) whatever the password.             *)
(***************************************************************************)
PutHandled == Len(puts') = Len(puts) + 1
ThePut == puts'[Len(puts')]

C39_Step ==
    PutHandled =>
        /\ ThePut.status = OK =>
              /\ env.DISABLE_ADMIN # "true"
              /\ env.ADMIN_PASSWORD \notin {"undefined", ""}
              /\ ThePut.password = env.ADMIN_PASSWORD
              /\ ThePut.token.defined
              /\ Len(ThePut.token.chars) >= 3
              /\ SubSeq(ThePut.token.chars, 1, 3) = <<"r", "8", "_">>
              /\ replicate_api_token' = trim(ThePut.token.chars)
        /\ ThePut.status # OK => replicate_api_token' = replicate_api_token
        /\ replicate_api_token' # replicate_api_token => ThePut.status = OK
        /\ env.DISABLE_ADMIN = "true" => ThePut.status = 403

C39_AdminGate == [][C39_Step]_vars

\* a request with a wrong password was rejected and one with the right password and a
\* well-formed token was stored
C39_Witness ==
    /\ Len(puts) = 2
    /\ puts[1].status = 401 /\ puts[1].password = "guess"
    /\ puts[2].status = OK /\ puts[2].password = "secret"
    /\ replicate_api_token = <<"r", "8", "_", "x">>
====
